---------------------------- MODULE Spec2Model ----------------------------
(***************************************************************************)
(* A model of gammapy's MapDataset / MapDatasetOnOff prediction and        *)
(* stacking engine (src/gammapy/datasets/map.py).                          *)
(*                                                                         *)
(* A map is a sequence of NBins bin values (the flattened data array of a  *)
(* Map on the dataset geometry); an absent map (Python None) is the empty  *)
(* sequence.  A bin value is an extended rational [n, d]: d > 0 is the     *)
(* finite number n/d in lowest terms, d = 0 is +inf (n = 1), -inf (n = -1) *)
(* or NaN (n = 0), with the IEEE-754 rules for the special values and      *)
(* overflow to infinity beyond MAXFLOAT.  Of rounding only the loss of a   *)
(* term that is negligible in a sum is modelled.                           *)
(***************************************************************************)
EXTENDS Integers, Sequences, FiniteSets, TLC

-----------------------------------------------------------------------------
(* Bounds of the model *)

\* number of bins of the dataset geometry
NBins == 2
\* largest count / acceptance value put in an input map
MaxCount == 2
\* number of stack() calls in one behaviour
MaxStacks == 2

\* stands for the largest finite double, np.finfo(float).max
MAXFLOAT == 1000
\* a sum keeps the larger term when the smaller is below 1 / PRECISION of it
\* (stands for the 2 ^ 53 of a double)
PRECISION == 100

Bins == 1..NBins

-----------------------------------------------------------------------------
(* Floating point values *)

Abs(x) == IF x < 0 THEN -x ELSE x

Sign(x) == IF x < 0 THEN -1 ELSE IF x > 0 THEN 1 ELSE 0

RECURSIVE GCD(_, _)
GCD(a, b) == IF b = 0 THEN a ELSE GCD(b, a % b)

NaN == [n |-> 0, d |-> 0]
PosInf == [n |-> 1, d |-> 0]
NegInf == [n |-> -1, d |-> 0]

\* the float n/d: lowest terms, positive denominator, overflow to +-inf
Flt(n, d) ==
    IF d = 0 THEN [n |-> Sign(n), d |-> 0]
    ELSE LET s == IF d < 0 THEN -1 ELSE 1
             g == GCD(Abs(n), Abs(d))
             nn == (s * n) \div g
             dd == (s * d) \div g
         IN  IF Abs(nn) > MAXFLOAT * dd THEN [n |-> Sign(nn), d |-> 0]
             ELSE [n |-> nn, d |-> dd]

I(k) == Flt(k, 1)

IsNaN(x) == x.d = 0 /\ x.n = 0
IsFinite(x) == x.d > 0

\* IEEE comparison ==: NaN equals nothing, itself included
FEq(x, y) == ~IsNaN(x) /\ ~IsNaN(y) /\ x = y

\* IEEE comparison x < 0
FNeg(x) == x.n < 0

\* whether the float y is lost in the rounding of x + y
Absorbs(x, y) == x.d > 0 /\ y.d > 0 /\ Abs(y.n) * x.d * PRECISION <= Abs(x.n) * y.d

FAdd(x, y) ==
    IF x.d = 0 /\ y.d = 0
    THEN (IF x = y THEN x ELSE NaN)
    ELSE IF Absorbs(x, y) THEN x
    ELSE IF Absorbs(y, x) THEN y
    ELSE Flt(x.n * y.d + y.n * x.d, x.d * y.d)

FMul(x, y) == Flt(x.n * y.n, x.d * y.d)

FDiv(x, y) ==
    IF y.n < 0 THEN Flt(-(x.n * y.d), x.d * (-y.n))
    ELSE Flt(x.n * y.d, x.d * y.n)

\* np.nan_to_num(x): NaN -> 0, +inf -> largest float, -inf -> smallest float
NanToNum(x) ==
    IF IsFinite(x) THEN x
    ELSE IF IsNaN(x) THEN I(0)
    ELSE I(x.n * MAXFLOAT)


RECURSIVE ISqrtFrom(_, _)
ISqrtFrom(k, r) == IF (r + 1) * (r + 1) > k THEN r ELSE ISqrtFrom(k, r + 1)

\* np.sqrt on the values that occur: squares of rationals and the specials
FSqrt(x) ==
    IF x.d = 0 THEN (IF x.n > 0 THEN PosInf ELSE NaN)
    ELSE IF x.n < 0 THEN NaN
    ELSE LET rn == ISqrtFrom(x.n, 0)
             rd == ISqrtFrom(x.d, 0)
         IN  IF rn * rn = x.n /\ rd * rd = x.d
             THEN Flt(rn, rd)
             ELSE CHOOSE irrational \in {} : TRUE

-----------------------------------------------------------------------------
(* Maps *)

\* Python None
None == << >>

\* Map.from_geom(geom): a zero-filled map
MapFromGeom == [b \in Bins |-> I(0)]

\* Map.from_geom(geom, dtype=bool): an all-False mask
MaskFromGeom == [b \in Bins |-> FALSE]

MapAdd(a, b) == [i \in Bins |-> FAdd(a[i], b[i])]
MapMul(a, b) == [i \in Bins |-> FMul(a[i], b[i])]
MapDiv(a, b) == [i \in Bins |-> FDiv(a[i], b[i])]

\* data.sum()
RECURSIVE SumUpTo(_, _)
SumUpTo(m, k) == IF k = 0 THEN I(0) ELSE FAdd(SumUpTo(m, k - 1), m[k])
MapSum(m) == SumUpTo(m, NBins)

\* np.any(mask.data)
MaskAny(w) == \E b \in DOMAIN w : w[b]

\* Map.stack(other, weights, nan_to_num) on a float map: non-finite values of
\* other are zeroed when nan_to_num, the data are multiplied by the weights
\* and added in place
MapStack(m, o, w, nan_to_num) ==
    [b \in DOMAIN m |->
        LET data == IF nan_to_num /\ ~IsFinite(o[b]) THEN I(0) ELSE o[b]
            weighted == IF w = None THEN data
                        ELSE FMul(data, IF w[b] THEN I(1) ELSE I(0))
        IN  FAdd(m[b], weighted)]

\* Map.stack(other) on a boolean map: += on booleans is the logical or
MaskStack(m, o) == [b \in DOMAIN m |-> m[b] \/ o[b]]

-----------------------------------------------------------------------------
(* Datasets *)

\* MapDataset.__init__: the roles as given, nothing cached.  bkg_pars holds
\* background_model.parameters.value, <<norm, tilt>>, or None when no
\* FoVBackgroundModel is attached; evaluators is the ordered dict
\* _evaluators as a sequence of [name, contributes, npred].  bkg_alias tells
\* that _background_cached and background are one and the same Map object.
MapDatasetInit(counts, background, mask_safe, mask_fit, bkg_pars, evaluators) ==
    [ tag |-> "MapDataset",
      stat_type |-> "cash",
      counts |-> counts,
      background |-> background,
      counts_off |-> None,
      acceptance |-> None,
      acceptance_off |-> None,
      mask_safe |-> mask_safe,
      mask_fit |-> mask_fit,
      bkg_pars |-> bkg_pars,
      evaluators |-> evaluators,
      bkg_cached |-> None,
      bkg_pars_cached |-> None,
      bkg_alias |-> FALSE ]

\* MapDatasetOnOff.__init__
MapDatasetOnOffInit(counts, counts_off, acceptance, acceptance_off, mask_safe, mask_fit, evaluators) ==
    [ tag |-> "MapDatasetOnOff",
      stat_type |-> "wstat",
      counts |-> counts,
      background |-> None,
      counts_off |-> counts_off,
      acceptance |-> acceptance,
      acceptance_off |-> acceptance_off,
      mask_safe |-> mask_safe,
      mask_fit |-> mask_fit,
      bkg_pars |-> None,
      evaluators |-> evaluators,
      bkg_cached |-> None,
      bkg_pars_cached |-> None,
      bkg_alias |-> FALSE ]

\* MapDataset.from_geoms: zero counts and background, all-False safe mask
FromGeoms == MapDatasetInit(MapFromGeom, MapFromGeom, MaskFromGeom, None, None, << >>)

\* MapDatasetOnOff.from_geoms: zero counts, counts_off and acceptances
FromGeomsOnOff ==
    MapDatasetOnOffInit(MapFromGeom, MapFromGeom, MapFromGeom, MapFromGeom,
                        MaskFromGeom, None, << >>)

IsOnOff(d) == d.tag = "MapDatasetOnOff"

\* the outcome of a call: the exception raised ("none" when it returns), the
\* dataset as the call leaves it, and the value returned
Outcome(err, d, ret) == [err |-> err, ds |-> d, ret |-> ret]

-----------------------------------------------------------------------------
(* Predicted counts *)

\* MapDataset.npred_signal(stack=True): the contributions of the evaluators
\* that contribute, stacked on a zero map
RECURSIVE SignalUpTo(_, _)
SignalUpTo(evs, k) ==
    IF k = 0 THEN MapFromGeom
    ELSE IF evs[k].contributes
         THEN MapStack(SignalUpTo(evs, k - 1), evs[k].npred, None, TRUE)
         ELSE SignalUpTo(evs, k - 1)

NpredSignal(d) == SignalUpTo(d.evaluators, Len(d.evaluators))

\* FoVBackgroundModel.evaluate_geom: norm * (E / E_ref) ^ (-tilt), with
\* E / E_ref = b in bin b and tilt 0 or 1
EvaluateGeom(pars) ==
    [b \in Bins |-> IF pars[2] = I(0) THEN pars[1] ELSE FDiv(pars[1], I(b))]

\* whether npred_background() reaches the comparison of the parameter values
ComparesParameters(d) == ~IsOnOff(d) /\ d.bkg_pars # None /\ d.background # None

\* np.all(cached == values); a comparison with None is False
ParametersAllEqual(cached, values) ==
    /\ cached # None
    /\ \A i \in 1..Len(values) : FEq(cached[i], values[i])

\* a cache that is filled once and never invalidated
BackgroundParametersChanged_Never(d) == d.bkg_pars_cached = None

\* MapDataset._background_parameters_changed (the value of the property)
BackgroundParametersChanged(d) == ~ParametersAllEqual(d.bkg_pars_cached, d.bkg_pars)

\* MapDataset._background_parameters_changed (its effect): the values are
\* cached when they changed
CacheBackgroundParameters(d) ==
    IF BackgroundParametersChanged(d)
    THEN [d EXCEPT !.bkg_pars_cached = d.bkg_pars]
    ELSE d

\* MapDataset.npred_background (Cash)
NpredBackgroundCash(d) ==
    IF d.bkg_pars # None /\ d.background # None
    THEN IF BackgroundParametersChanged(d)
         THEN LET scaled == MapMul(d.background, EvaluateGeom(d.bkg_pars))
                  d1 == CacheBackgroundParameters(d)
                  d2 == IF d1.bkg_cached = None
                        THEN [d1 EXCEPT !.bkg_cached = scaled, !.bkg_alias = FALSE]
                        ELSE IF d1.bkg_alias
                             THEN [d1 EXCEPT !.bkg_cached = scaled, !.background = scaled]
                             ELSE [d1 EXCEPT !.bkg_cached = scaled]
              IN  Outcome("none", d2, scaled)
         ELSE Outcome("none", d, d.bkg_cached)
    ELSE Outcome("none", d, d.background)

\* MapDatasetOnOff.alpha
Alpha(d) == [b \in Bins |-> NanToNum(FDiv(d.acceptance[b], d.acceptance_off[b]))]

\* gammapy.stats.get_wstat_mu_bkg
GetWstatMuBkg(n_on, n_off, alpha, mu_sig) ==
    LET C == FAdd(FMul(alpha, FAdd(n_on, n_off)),
                  FMul(I(-1), FMul(FAdd(I(1), alpha), mu_sig)))
        D == FSqrt(FAdd(FMul(C, C),
                        FMul(FMul(FMul(I(4), alpha), FAdd(alpha, I(1))),
                             FMul(n_off, mu_sig))))
    IN  FDiv(FAdd(C, D), FMul(FMul(I(2), alpha), FAdd(alpha, I(1))))

\* what a method of the on/off dataset raises when it reads .data or
\* .quantity of a role that is None
MissingRole(d, roles) == \E r \in roles : d[r] = None

\* MapDatasetOnOff.npred_background
NpredBackgroundOnOff(d) ==
    IF MissingRole(d, {"acceptance", "acceptance_off", "counts", "counts_off"})
    THEN Outcome("AttributeError", d, None)
    ELSE LET alpha == Alpha(d)
             mu_sig == NpredSignal(d)
         IN  Outcome("none", d,
                 [b \in Bins |->
                     NanToNum(FMul(alpha[b],
                         GetWstatMuBkg(d.counts[b], d.counts_off[b],
                                       alpha[b], mu_sig[b])))])

NpredBackground(d) ==
    IF IsOnOff(d) THEN NpredBackgroundOnOff(d) ELSE NpredBackgroundCash(d)

\* MapDatasetOnOff.background: alpha * counts_off, None without counts_off
BackgroundOnOff(d) ==
    IF d.counts_off = None THEN Outcome("none", d, None)
    ELSE IF MissingRole(d, {"acceptance", "acceptance_off"})
         THEN Outcome("AttributeError", d, None)
         ELSE Outcome("none", d, MapMul(Alpha(d), d.counts_off))

\* self.background, as an attribute or as the on/off property
Background(d) ==
    IF IsOnOff(d) THEN BackgroundOnOff(d) ELSE Outcome("none", d, d.background)

\* negative predictions left as they are
ClipNegative_Off(m) == m

\* npred_total.data[npred_total.data < 0.0] = 0
ClipNegative(m) == [b \in Bins |-> IF FNeg(m[b]) THEN I(0) ELSE m[b]]

\* MapDataset.npred
Npred(d) ==
    LET signal == NpredSignal(d)
        bkg == Background(d)
    IN  IF bkg.err # "none" THEN Outcome(bkg.err, d, None)
        ELSE IF bkg.ret # None
             THEN LET nb == NpredBackground(d)
                  IN  IF nb.err # "none" THEN nb
                      ELSE Outcome("none", nb.ds, ClipNegative(MapAdd(signal, nb.ret)))
             ELSE Outcome("none", d, ClipNegative(signal))

-----------------------------------------------------------------------------
(* Stacking *)

\* counts weighted by the safe mask of the dataset stacked into, not of other
StackCounts_SelfMask(d, o, nan_to_num) ==
    IF d.counts # None /\ o.counts # None
    THEN [d EXCEPT !.counts = MapStack(d.counts, o.counts, d.mask_safe, nan_to_num)]
    ELSE d

\* MapDataset.stack: counts
StackCounts(d, o, nan_to_num) ==
    IF d.counts # None /\ o.counts # None
    THEN [d EXCEPT !.counts = MapStack(d.counts, o.counts, o.mask_safe, nan_to_num)]
    ELSE d

\* the stacked map stored in self.background: when npred_background()
\* returned _background_cached, background and cache are now one object
StoreBackground(d, stacked, from_cache) ==
    [d EXCEPT !.background = stacked,
              !.bkg_cached = IF from_cache \/ d.bkg_alias THEN stacked ELSE @,
              !.bkg_alias = from_cache \/ @]

\* the stored background maps added, whatever the background models say
StackBackground_Stored(d, o, nan_to_num) ==
    IF d.stat_type = "cash" /\ d.background # None /\ ~IsOnOff(o) /\ o.background # None
    THEN Outcome("none",
             StoreBackground(d, MapStack(d.background, o.background, o.mask_safe,
                                         nan_to_num), FALSE),
             None)
    ELSE Outcome("none", d, None)

\* MapDataset.stack: background of a Cash dataset
StackBackground(d, o, nan_to_num) ==
    IF d.stat_type # "cash" \/ d.background = None
    THEN Outcome("none", d, None)
    ELSE LET ob == Background(o)
         IN  IF ob.err # "none" THEN Outcome(ob.err, d, None)
             ELSE IF ob.ret = None THEN Outcome("none", d, None)
             ELSE LET mine == NpredBackgroundCash(d)
                      theirs == NpredBackground(o)
                  IN  IF theirs.err # "none" THEN Outcome(theirs.err, mine.ds, None)
                      ELSE Outcome("none",
                               StoreBackground(mine.ds,
                                   MapStack(mine.ret, theirs.ret, o.mask_safe, nan_to_num),
                                   ComparesParameters(d)),
                               None)

\* MapDataset.stack: mask_safe
StackMaskSafe(d, o) ==
    IF d.mask_safe # None /\ o.mask_safe # None
    THEN [d EXCEPT !.mask_safe = MaskStack(d.mask_safe, o.mask_safe)]
    ELSE d

\* a fit mask that is the intersection of the two
StackMaskFit_And(d, o) ==
    IF d.mask_fit # None /\ o.mask_fit # None
    THEN [d EXCEPT !.mask_fit = [b \in Bins |-> d.mask_fit[b] /\ o.mask_fit[b]]]
    ELSE IF o.mask_fit # None THEN [d EXCEPT !.mask_fit = o.mask_fit]
    ELSE d

\* MapDataset.stack: mask_fit
StackMaskFit(d, o) ==
    IF d.mask_fit # None /\ o.mask_fit # None
    THEN [d EXCEPT !.mask_fit = MaskStack(d.mask_fit, o.mask_fit)]
    ELSE IF o.mask_fit # None THEN [d EXCEPT !.mask_fit = o.mask_fit]
    ELSE d

\* MapDataset.stack
Stack(d, o, nan_to_num) ==
    LET d1 == StackCounts(d, o, nan_to_num)
        bg == StackBackground(d1, o, nan_to_num)
    IN  IF bg.err # "none" THEN Outcome(bg.err, bg.ds, None)
        ELSE Outcome("none", StackMaskFit(StackMaskSafe(bg.ds, o), o), None)

\* MapDatasetOnOff._is_stackable
IsStackable(d) ==
    LET incomplete == MissingRole(d, {"acceptance_off", "acceptance", "counts_off"})
    IN  IF d.mask_safe = None THEN Outcome("AttributeError", d, None)
        ELSE Outcome("none", d, ~(incomplete /\ MaskAny(d.mask_safe)))

\* a stack that takes any dataset for an on/off dataset
StackOnOffError_NoTypeCheck(d, o) ==
    IF IsStackable(d).err # "none" THEN IsStackable(d).err
    ELSE IF ~IsStackable(d).ret THEN "ValueError"
    ELSE IF IsStackable(o).err # "none" THEN IsStackable(o).err
    ELSE IF ~IsStackable(o).ret THEN "ValueError"
    ELSE IF d.counts = None \/ d.acceptance = None \/ o.acceptance = None
         THEN "AttributeError"
    ELSE IF d.counts_off # None /\ d.acceptance_off = None THEN "AttributeError"
    ELSE IF o.counts_off # None /\ o.acceptance_off = None THEN "AttributeError"
    ELSE "none"

\* MapDatasetOnOff.stack: the exception raised before anything is computed
StackOnOffError(d, o) ==
    IF ~IsOnOff(o) THEN "TypeError"
    ELSE IF IsStackable(d).err # "none" THEN IsStackable(d).err
    ELSE IF ~IsStackable(d).ret THEN "ValueError"
    ELSE IF IsStackable(o).err # "none" THEN IsStackable(o).err
    ELSE IF ~IsStackable(o).ret THEN "ValueError"
    ELSE IF d.counts = None \/ d.acceptance = None \/ o.acceptance = None
         THEN "AttributeError"
    ELSE IF d.counts_off # None /\ d.acceptance_off = None THEN "AttributeError"
    ELSE IF o.counts_off # None /\ o.acceptance_off = None THEN "AttributeError"
    ELSE "none"

\* MapDatasetOnOff.stack: total_acceptance
TotalAcceptance(d, o, nan_to_num) ==
    MapStack(MapStack(MapFromGeom, d.acceptance, None, nan_to_num),
             o.acceptance, o.mask_safe, nan_to_num)

\* MapDatasetOnOff.stack: total_off
TotalOff(d, o, nan_to_num) ==
    LET mine == IF d.counts_off # None
                THEN MapStack(MapFromGeom, d.counts_off, None, nan_to_num)
                ELSE MapFromGeom
    IN  IF o.counts_off # None
        THEN MapStack(mine, o.counts_off, o.mask_safe, nan_to_num)
        ELSE mine

\* MapDatasetOnOff.stack: total_alpha
TotalAlpha(d, o, nan_to_num) ==
    LET mine == IF d.counts_off # None
                THEN MapStack(MapFromGeom, MapMul(Alpha(d), d.counts_off), None, nan_to_num)
                ELSE MapFromGeom
    IN  IF o.counts_off # None
        THEN MapStack(mine, MapMul(Alpha(o), o.counts_off), o.mask_safe, nan_to_num)
        ELSE mine

\* MapDatasetOnOff.stack: the new acceptance_off
StackedAcceptanceOff(d, o, nan_to_num) ==
    LET total_acceptance == TotalAcceptance(d, o, nan_to_num)
        total_off == TotalOff(d, o, nan_to_num)
        total_alpha == TotalAlpha(d, o, nan_to_num)
        acceptance_off == MapDiv(MapMul(total_acceptance, total_off), total_alpha)
        average_alpha == FDiv(MapSum(total_alpha), MapSum(total_off))
    IN  [b \in Bins |->
            IF FEq(total_off[b], I(0))
            THEN FDiv(total_acceptance[b], average_alpha)
            ELSE acceptance_off[b]]

\* MapDatasetOnOff.stack
StackOnOff(d, o, nan_to_num) ==
    IF StackOnOffError(d, o) # "none"
    THEN Outcome(StackOnOffError(d, o), d, None)
    ELSE Stack([d EXCEPT !.acceptance = TotalAcceptance(d, o, nan_to_num),
                         !.acceptance_off = StackedAcceptanceOff(d, o, nan_to_num),
                         !.counts_off = TotalOff(d, o, nan_to_num)],
               o, nan_to_num)

\* self.stack(other, nan_to_num), by the class of self
StackInto(d, o, nan_to_num) ==
    IF IsOnOff(d) THEN StackOnOff(d, o, nan_to_num) ELSE Stack(d, o, nan_to_num)

-----------------------------------------------------------------------------
(* State *)

VARIABLES
    ds,      \* the dataset the methods are called on (self)
    last,    \* the last call: its name, arguments, outcome and the dataset before it
    seen,    \* the background parameter values npred_background() compared at its
             \* last call (cur) and at the call before (prev)
    nstack,  \* the number of stack() calls made on ds
    runs,    \* the per-observation datasets <<A, B, C>> of an order comparison
    rev      \* a second dataset: the one that receives runs in reverse order, or
             \* the one a transform returned; and how many stacks it got

vars == <<ds, last, seen, nstack, runs, rev>>

Call(op, pre, other, nan_to_num, out, evaluated) ==
    [ op |-> op, pre |-> pre, other |-> other, nan_to_num |-> nan_to_num,
      err |-> out.err, ret |-> out.ret, evaluated |-> evaluated ]

\* no order comparison under way
NoReverse == [ds |-> None, n |-> 0]

NoCall == Call("none", None, None, TRUE, Outcome("none", None, None), FALSE)

-----------------------------------------------------------------------------
(* Input values *)

UniformMaps == {[b \in Bins |-> I(v)] : v \in 0..MaxCount}
UnitMaps == {[b \in Bins |-> I(IF b = k THEN 1 ELSE 0)] : k \in Bins}
ValueMaps == UniformMaps \union UnitMaps
Masks == [Bins -> BOOLEAN]

\* <<norm, tilt>> of a FoVBackgroundModel; a norm can be NaN
ParValues == { <<I(1), I(0)>>, <<I(2), I(0)>>, <<I(2), I(1)>>, <<NaN, I(0)>> }

\* predicted counts of a model component; numerical noise makes some negative
SignalMaps ==
    {[b \in Bins |-> I(IF b = k THEN -v ELSE v)] : k \in 0..NBins, v \in 1..MaxCount}

Evaluator(name, contributes, npred) ==
    [name |-> name, contributes |-> contributes, npred |-> npred]

EvaluatorLists ==
    { << >> }
    \union { <<Evaluator("src", TRUE, m)>> : m \in SignalMaps }
    \union { <<Evaluator("src", TRUE, m), Evaluator("diffuse", TRUE, MapFromGeom)>> :
                m \in SignalMaps }
    \union { <<Evaluator("far", FALSE, m), Evaluator("src", TRUE, m)>> :
                m \in SignalMaps }

-----------------------------------------------------------------------------
(* Prediction calls *)

\* whether npred_background() calls background_model.evaluate_geom
EvaluatesModel(d) == ComparesParameters(d) /\ BackgroundParametersChanged(d)

Seen(d) == IF ComparesParameters(d) THEN [prev |-> seen.cur, cur |-> d.bkg_pars] ELSE seen

\* the fit driver changes the value of a background parameter
SetParameters(p) ==
    /\ ds.bkg_pars # None
    /\ p # ds.bkg_pars
    /\ ds' = [ds EXCEPT !.bkg_pars = p]
    /\ last' = Call("set_parameters", None, None, TRUE, Outcome("none", None, None), FALSE)
    /\ UNCHANGED <<seen, nstack, runs, rev>>

CallNpredBackground ==
    LET out == NpredBackground(ds)
    IN  /\ ds' = out.ds
        /\ last' = Call("npred_background", None, None, TRUE, out, EvaluatesModel(ds))
        /\ seen' = Seen(ds)
        /\ UNCHANGED <<nstack, runs, rev>>

CallNpred ==
    LET out == Npred(ds)
    IN  /\ ds' = out.ds
        /\ last' = Call("npred", None, None, TRUE, out, EvaluatesModel(ds))
        /\ seen' = Seen(ds)
        /\ UNCHANGED <<nstack, runs, rev>>

\* datasets as constructed: Cash datasets with or without a background map,
\* a background model and model components; on/off datasets
CashDatasets ==
    { MapDatasetInit(MapFromGeom, bg, None, None, p, evs) :
        bg \in {None} \union UniformMaps \union {[b \in Bins |-> I(b)]},
        p \in {None} \union ParValues,
        evs \in EvaluatorLists }

OnOffDatasets ==
    { MapDatasetOnOffInit(c, off, acc, acc_off, [b \in Bins |-> TRUE], None, << >>) :
        c \in ValueMaps,
        off \in {None} \union ValueMaps,
        acc \in UniformMaps,
        acc_off \in UniformMaps }

InitNpred ==
    /\ ds \in CashDatasets \union OnOffDatasets
    /\ last = NoCall
    /\ seen = [prev |-> None, cur |-> None]
    /\ nstack = 0
    /\ runs = << >>
    /\ rev = NoReverse

NextNpred ==
    \/ \E p \in ParValues : SetParameters(p)
    \/ CallNpredBackground
    \/ CallNpred

SpecNpred == InitNpred /\ [][NextNpred]_vars

-----------------------------------------------------------------------------
(* Stacking calls *)

Uniform(v) == [b \in Bins |-> I(v)]
Unit(k) == [b \in Bins |-> I(IF b = k THEN 1 ELSE 0)]
Ramp == [b \in Bins |-> I(IF b < MaxCount THEN b ELSE MaxCount)]
AllBins == [b \in Bins |-> TRUE]
NoBins == [b \in Bins |-> FALSE]
Only(k) == [b \in Bins |-> b = k]

\* safe masks: nothing, everything, or a single bin
SafeMasks == {NoBins, AllBins} \union {Only(k) : k \in Bins}

\* self.stack(o, nan_to_num)
CallStack(o, nan_to_num) ==
    /\ nstack < MaxStacks
    /\ \E out \in {StackInto(ds, o, nan_to_num)} :
          /\ ds' = out.ds
          /\ last' = Call("stack", ds, o, nan_to_num, out, EvaluatesModel(ds))
    /\ nstack' = nstack + 1
    /\ UNCHANGED <<seen, runs, rev>>

\* Cash datasets to stack into: the empty dataset of from_geoms, and reduced
\* datasets without and with a background model
CashTargets ==
    { FromGeoms,
      MapDatasetInit(Uniform(1), None, Only(1), None, None, << >>),
      MapDatasetInit(Uniform(1), Uniform(1), Only(1), None, None, << >>),
      MapDatasetInit(Uniform(1), Uniform(1), Only(1), None, <<I(2), I(0)>>, << >>) }

\* per-observation Cash datasets
CashRuns ==
    { MapDatasetInit(Ramp, None, m, None, None, << >>) : m \in {None} \union SafeMasks }
    \union
    { MapDatasetInit(Ramp, Uniform(1), m, None, p, << >>) :
        m \in {None} \union SafeMasks,
        p \in {None, <<I(2), I(0)>>, <<NaN, I(0)>>} }

\* per-observation on/off datasets with every role
OnOffComplete ==
    { MapDatasetOnOffInit(Ramp, off, Uniform(1), Uniform(2), m, None, << >>) :
        off \in {Uniform(0), Unit(1)}, m \in {AllBins, Only(1), NoBins} }
    \union
    { MapDatasetOnOffInit(Ramp, off, Uniform(1), Uniform(0), AllBins, None, << >>) :
        off \in {Unit(1), Uniform(MaxCount)} }

\* on/off datasets that lack a role, inside and outside their safe range
OnOffIncomplete ==
    { MapDatasetOnOffInit(Ramp, None, Uniform(1), Uniform(2), m, None, << >>) :
        m \in {AllBins, NoBins} }
    \union
    { MapDatasetOnOffInit(Ramp, Unit(1), None, Uniform(2), m, None, << >>) :
        m \in {AllBins, NoBins} }
    \union
    { MapDatasetOnOffInit(Ramp, Unit(1), Uniform(1), None, m, None, << >>) :
        m \in {AllBins, NoBins} }

\* an on/off dataset built without a safe mask
OnOffMaskless == MapDatasetOnOffInit(Ramp, Unit(1), Uniform(1), Uniform(2), None, None, << >>)

OnOffTargets ==
    { FromGeomsOnOff,
      MapDatasetOnOffInit(Uniform(1), Unit(1), Uniform(1), Uniform(2), AllBins, None, << >>),
      MapDatasetOnOffInit(Uniform(1), Uniform(0), Uniform(1), Uniform(0), Only(1), None, << >>),
      MapDatasetOnOffInit(Uniform(1), Unit(1), None, Uniform(2), NoBins, None, << >>),
      OnOffMaskless }

\* the datasets stacked into a dataset of each class
Others(d) ==
    IF IsOnOff(d)
    THEN OnOffComplete \union OnOffIncomplete
         \union {OnOffMaskless, MapDatasetInit(Ramp, Uniform(1), AllBins, None, None, << >>)}
    ELSE CashRuns
         \union { MapDatasetOnOffInit(Ramp, Unit(1), Uniform(1), Uniform(2), m, None, << >>) :
                    m \in {AllBins, Only(1)} }
         \union { MapDatasetOnOffInit(Ramp, None, Uniform(1), Uniform(2), AllBins, None, << >>),
                  MapDatasetOnOffInit(Ramp, Unit(1), None, Uniform(2), AllBins, None, << >>) }

InitStack ==
    /\ ds \in CashTargets \union OnOffTargets
    /\ last = NoCall
    /\ seen = [prev |-> None, cur |-> None]
    /\ nstack = 0
    /\ runs = << >>
    /\ rev = NoReverse

NextStack == \E o \in Others(ds), nan_to_num \in BOOLEAN : CallStack(o, nan_to_num)

SpecStack == InitStack /\ [][NextStack]_vars

-----------------------------------------------------------------------------
(* Stacking datasets that carry fit masks *)

\* datasets to stack into, without and with a safe mask and a fit mask
MaskTargets ==
    { MapDatasetInit(Uniform(1), None, ms, mf, None, << >>) :
        ms \in {None, NoBins, Only(1)}, mf \in {None, NoBins, Only(1)} }

\* per-observation datasets, without and with a safe mask and a fit mask
MaskRuns ==
    { MapDatasetInit(Ramp, None, ms, mf, None, << >>) :
        ms \in {None, Only(NBins), AllBins}, mf \in {None, Only(NBins), AllBins} }

InitMasks ==
    /\ ds \in MaskTargets
    /\ last = NoCall
    /\ seen = [prev |-> None, cur |-> None]
    /\ nstack = 0
    /\ runs = << >>
    /\ rev = NoReverse

NextMasks == \E o \in MaskRuns, nan_to_num \in BOOLEAN : CallStack(o, nan_to_num)

SpecMasks == InitMasks /\ [][NextMasks]_vars

-----------------------------------------------------------------------------
(* Stacking three observations in both orders *)

\* per-observation Cash datasets with event counts and any safe mask
OrderRuns ==
    { MapDatasetInit(c, Uniform(1), m, None, None, << >>) :
        c \in {Uniform(1), Ramp}, m \in {None} \union SafeMasks }

\* ds.stack(runs[1]); ds.stack(runs[2]); ds.stack(runs[3])
StackForward ==
    /\ nstack < 3
    /\ ds' = Stack(ds, runs[nstack + 1], rev.nan_to_num).ds
    /\ nstack' = nstack + 1
    /\ UNCHANGED <<last, seen, runs, rev>>

\* rev.ds.stack(runs[3]); rev.ds.stack(runs[2]); rev.ds.stack(runs[1])
StackReverse ==
    /\ rev.n < 3
    /\ rev' = [rev EXCEPT !.ds = Stack(rev.ds, runs[3 - rev.n], rev.nan_to_num).ds,
                          !.n = @ + 1]
    /\ UNCHANGED <<ds, last, seen, nstack, runs>>

\* two empty datasets of from_geoms and three observations <<A, B, C>>
InitOrder ==
    /\ ds = FromGeoms
    /\ last = NoCall
    /\ seen = [prev |-> None, cur |-> None]
    /\ nstack = 0
    /\ runs \in [1..3 -> OrderRuns]
    /\ rev \in {[ds |-> FromGeoms, n |-> 0, nan_to_num |-> f] : f \in BOOLEAN}

NextOrder == StackForward \/ StackReverse

SpecOrder == InitOrder /\ [][NextOrder]_vars

-----------------------------------------------------------------------------
(* Assigning models *)

\* the name of the dataset the methods are called on
Name == "ds"

\* a model of a Models list: a FoVBackgroundModel (fov) with its parameter
\* values, or a sky model with what its MapEvaluator reports
Model(name, fov, datasets_names, pars, contributes, npred) ==
    [ name |-> name, fov |-> fov, datasets_names |-> datasets_names,
      pars |-> pars, contributes |-> contributes, npred |-> npred ]

SkyModel(name, datasets_names, contributes, npred) ==
    Model(name, FALSE, datasets_names, None, contributes, npred)

FoVBackgroundModel(pars) == Model("ds-bkg", TRUE, <<Name>>, pars, FALSE, None)

\* DatasetModels.select(datasets_names=name): the models that name no
\* dataset or name this one, in their order
Selected(m) ==
    \/ m.datasets_names = None
    \/ \E i \in 1..Len(m.datasets_names) : m.datasets_names[i] = Name

\* self._evaluators[model.name] = evaluator
PutEvaluator(evs, ev) ==
    IF \E i \in 1..Len(evs) : evs[i].name = ev.name
    THEN [i \in 1..Len(evs) |-> IF evs[i].name = ev.name THEN ev ELSE evs[i]]
    ELSE Append(evs, ev)

\* evaluators that outlive the assignment
ResetEvaluators_Keep(d) == d.evaluators

\* MapDataset.models setter: self._evaluators = {}
ResetEvaluators(d) == << >>

\* MapDataset.models setter: the loop over the selected models
RECURSIVE BuildEvaluators(_, _, _)
BuildEvaluators(evs, models, k) ==
    IF k = 0 THEN evs
    ELSE LET m == models[k]
             before == BuildEvaluators(evs, models, k - 1)
         IN  IF Selected(m) /\ ~m.fov
             THEN PutEvaluator(before, Evaluator(m.name, m.contributes, m.npred))
             ELSE before

\* MapDataset.background_model after the assignment: the parameter values
\* of the FoVBackgroundModel of this dataset
BackgroundModelPars(models) ==
    IF models = None \/ ~\E i \in 1..Len(models) : models[i].fov /\ Selected(models[i])
    THEN None
    ELSE models[CHOOSE i \in 1..Len(models) : models[i].fov /\ Selected(models[i])].pars

\* MapDataset.models setter
ModelsSetter(d, models) ==
    [d EXCEPT !.evaluators = IF models = None THEN ResetEvaluators(d)
                             ELSE BuildEvaluators(ResetEvaluators(d), models, Len(models)),
              !.bkg_pars = BackgroundModelPars(models)]

\* a Map with its non-spatial axes: the data of a plain map, or one slice
\* per label of the axis
AxisMap(axes, labels, data) == [axes |-> axes, labels |-> labels, data |-> data]

\* MapDataset.npred_signal(stack=False): labels and npred_list
RECURSIVE SignalSlices(_, _)
SignalSlices(evs, k) ==
    IF k = 0 THEN [labels |-> << >>, maps |-> << >>]
    ELSE LET before == SignalSlices(evs, k - 1)
         IN  IF evs[k].contributes
             THEN [labels |-> Append(before.labels, evs[k].name),
                   maps |-> Append(before.maps,
                                   MapStack(MapFromGeom, evs[k].npred, None, TRUE))]
             ELSE before

\* MapDataset.npred_signal(model_names=None, stack)
NpredSignalStack(d, stack) ==
    LET list == SignalSlices(d.evaluators, Len(d.evaluators))
    IN  IF stack THEN AxisMap(<< >>, << >>, NpredSignal(d))
        ELSE IF list.maps # << >> THEN AxisMap(<<"models">>, list.labels, list.maps)
        ELSE AxisMap(<< >>, << >>, MapFromGeom)

\* dataset.models = models
SetModels(models) ==
    /\ ds' = ModelsSetter(ds, models)
    /\ last' = Call("models", ds, models, TRUE, Outcome("none", None, None), FALSE)
    /\ UNCHANGED <<seen, nstack, runs, rev>>

\* dataset.npred_signal(stack=stack)
CallNpredSignal(stack) ==
    /\ last' = Call("npred_signal", ds, [stack |-> stack], TRUE,
                    Outcome("none", ds, NpredSignalStack(ds, stack)), FALSE)
    /\ UNCHANGED <<ds, seen, nstack, runs, rev>>

\* predicted counts of the sky models
Source(names, contributes) == SkyModel("src", names, contributes, Ramp)
Diffuse(names) == SkyModel("diffuse", names, TRUE, Uniform(1))

\* the lists assigned: None or an empty list (one value here, both leave no
\* evaluator), sky models for this dataset, for every dataset and for another
\* dataset, with and without a FoVBackgroundModel, contributing or not
ModelLists ==
    { None, <<FoVBackgroundModel(<<I(2), I(0)>>)>> }
    \union { <<Source(n, c)>> : n \in {None, <<Name>>, <<"other">>}, c \in BOOLEAN }
    \union { <<Source(n, c), Diffuse(<<Name>>)>> : n \in {None, <<"other">>}, c \in BOOLEAN }
    \union { <<Diffuse(None), FoVBackgroundModel(<<I(1), I(0)>>), Source(<<Name>>, c)>> :
                c \in BOOLEAN }

InitModels ==
    /\ ds \in { FromGeoms, FromGeomsOnOff,
                MapDatasetInit(Ramp, Uniform(1), AllBins, None, None, << >>) }
    /\ last = NoCall
    /\ seen = [prev |-> None, cur |-> None]
    /\ nstack = 0
    /\ runs = << >>
    /\ rev = NoReverse

NextModels ==
    \/ \E models \in ModelLists : SetModels(models)
    \/ \E stack \in BOOLEAN : CallNpredSignal(stack)

SpecModels == InitModels /\ [][NextModels]_vars

-----------------------------------------------------------------------------
(* Writing and reading *)

\* the roles a dataset record does not carry so far: exposure, the IRF maps
\* and the tables, and the dtype of the data of its masks
WithRoles(d, exposure, psf, edisp, gti, meta_table) ==
    d @@ [ exposure |-> exposure, psf |-> psf, edisp |-> edisp, gti |-> gti,
           meta_table |-> meta_table,
           mask_safe_dtype |-> "bool", mask_fit_dtype |-> "bool" ]

\* the stat_type argument of the constructors
WithStatType(d, stat_type) == [d EXCEPT !.stat_type = stat_type]

\* an HDU of the list: the dtype and the data stored
Hdu(dtype, data) == [dtype |-> dtype, data |-> data]

\* Map.to_hdulist(hdu=...) of a role that is present
MapToHdu(m) == IF m = None THEN None ELSE Hdu("float", m)

\* Map.to_hdulist(hdu=...) of a mask: boolean data are stored as integers
MaskToHdu(m, dtype) ==
    IF m = None THEN None
    ELSE IF dtype = "bool" THEN Hdu("int", [b \in Bins |-> IF m[b] THEN 1 ELSE 0])
    ELSE Hdu(dtype, m)

\* edisp.to_hdulist(), psf.to_hdulist(), gti.to_table_hdu(), BinTableHDU
ObjectToHdu(x) == IF x = None THEN None ELSE Hdu("table", x)

\* MapDataset.to_hdulist: one HDU per role that is not None; background is
\* the stored map or, for an on/off dataset, the property alpha * counts_off
HdusOfMapDataset(d, background) ==
    [ COUNTS |-> MapToHdu(d.counts),
      EXPOSURE |-> MapToHdu(d.exposure),
      BACKGROUND |-> MapToHdu(background),
      EDISP |-> ObjectToHdu(d.edisp),
      PSF |-> ObjectToHdu(d.psf),
      MASK_SAFE |-> MaskToHdu(d.mask_safe, d.mask_safe_dtype),
      MASK_FIT |-> MaskToHdu(d.mask_fit, d.mask_fit_dtype),
      GTI |-> ObjectToHdu(d.gti),
      META_TABLE |-> ObjectToHdu(d.meta_table),
      COUNTS_OFF |-> None,
      ACCEPTANCE |-> None,
      ACCEPTANCE_OFF |-> None ]

\* MapDatasetOnOff.to_hdulist: del hdulist["BACKGROUND"] raises KeyError when
\* the list holds no such HDU
ToHdulistOnOff(d) ==
    LET background == BackgroundOnOff(d)
    IN  IF background.err # "none" THEN Outcome(background.err, d, None)
        ELSE IF background.ret = None THEN Outcome("KeyError", d, None)
        ELSE Outcome("none", d,
                 [HdusOfMapDataset(d, background.ret) EXCEPT
                     !.BACKGROUND = None,
                     !.COUNTS_OFF = MapToHdu(d.counts_off),
                     !.ACCEPTANCE = MapToHdu(d.acceptance),
                     !.ACCEPTANCE_OFF = MapToHdu(d.acceptance_off)])

\* to_hdulist, by the class of the dataset
ToHdulist(d) ==
    IF IsOnOff(d) THEN ToHdulistOnOff(d)
    ELSE Outcome("none", d, HdusOfMapDataset(d, d.background))

\* Map.from_hdulist(hdulist, hdu=...): the data as stored
HduData(h) == IF h = None THEN None ELSE h.data
HduDtype(h) == IF h = None THEN "bool" ELSE h.dtype

\* mask.data.astype(bool)
AsTypeBool(h) ==
    IF h = None THEN None
    ELSE IF h.dtype = "bool" THEN h.data
    ELSE [b \in Bins |-> h.data[b] # 0]

\* MapDataset.from_hdulist: cls(**kwargs) with the roles found in the list,
\* the masks converted to bool
MapDatasetFromHdulist(hdulist) ==
    WithRoles(MapDatasetInit(HduData(hdulist.COUNTS), HduData(hdulist.BACKGROUND),
                             AsTypeBool(hdulist.MASK_SAFE), AsTypeBool(hdulist.MASK_FIT),
                             None, << >>),
              HduData(hdulist.EXPOSURE), HduData(hdulist.PSF), HduData(hdulist.EDISP),
              HduData(hdulist.GTI), HduData(hdulist.META_TABLE))

\* MapDatasetOnOff.from_hdulist: cls(**kwargs) with the roles found in the
\* list, the masks as Map.from_hdulist returns them
MapDatasetOnOffFromHdulist(hdulist) ==
    [ WithRoles(MapDatasetOnOffInit(HduData(hdulist.COUNTS), HduData(hdulist.COUNTS_OFF),
                                    HduData(hdulist.ACCEPTANCE),
                                    HduData(hdulist.ACCEPTANCE_OFF),
                                    HduData(hdulist.MASK_SAFE), HduData(hdulist.MASK_FIT),
                                    << >>),
                HduData(hdulist.EXPOSURE), HduData(hdulist.PSF), HduData(hdulist.EDISP),
                HduData(hdulist.GTI), HduData(hdulist.META_TABLE))
      EXCEPT !.mask_safe_dtype = HduDtype(hdulist.MASK_SAFE),
             !.mask_fit_dtype = HduDtype(hdulist.MASK_FIT) ]

\* cls.from_hdulist(hdulist)
FromHdulist(tag, hdulist) ==
    IF tag = "MapDatasetOnOff" THEN MapDatasetOnOffFromHdulist(hdulist)
    ELSE MapDatasetFromHdulist(hdulist)

\* hdulist = dataset.to_hdulist()
CallToHdulist ==
    /\ last.op # "to_hdulist"
    /\ \E out \in {ToHdulist(ds)} :
          last' = Call("to_hdulist", ds, None, TRUE, out, FALSE)
    /\ UNCHANGED <<ds, seen, nstack, runs, rev>>

\* dataset = type(dataset).from_hdulist(hdulist)
CallFromHdulist ==
    /\ last.op = "to_hdulist"
    /\ last.err = "none"
    /\ ds' = FromHdulist(ds.tag, last.ret)
    /\ last' = Call("from_hdulist", ds, last.ret, TRUE, Outcome("none", None, None), FALSE)
    /\ UNCHANGED <<seen, nstack, runs, rev>>

\* Cash datasets with each role present or not
WrittenCash ==
    { WithStatType(WithRoles(MapDatasetInit(c, bg, ms, mf, None, << >>), e, irf, irf, t, t), st) :
        c \in {None, Ramp}, bg \in {None, Uniform(1)},
        ms \in {None, Only(1)}, mf \in {None, AllBins},
        e \in {None, Uniform(1)}, irf \in {None, <<"irf">>}, t \in {None, <<"table">>},
        st \in {"cash", "wstat"} }

\* on/off datasets with each role present or not
WrittenOnOff ==
    { WithStatType(WithRoles(MapDatasetOnOffInit(Ramp, off, acc, acc_off, ms, mf, << >>),
                             e, irf, irf, t, t), st) :
        off \in {None, Unit(1)}, acc \in {None, Uniform(1)}, acc_off \in {None, Uniform(2)},
        ms \in {None, Only(1)}, mf \in {None, AllBins},
        e \in {None, Uniform(1)}, irf \in {None, <<"irf">>}, t \in {None, <<"table">>},
        st \in {"wstat", "cash"} }

InitIO ==
    /\ ds \in WrittenCash \union WrittenOnOff
    /\ last = NoCall
    /\ seen = [prev |-> None, cur |-> None]
    /\ nstack = 0
    /\ runs = << >>
    /\ rev = NoReverse

NextIO == CallToHdulist \/ CallFromHdulist

SpecIO == InitIO /\ [][NextIO]_vars

-----------------------------------------------------------------------------
(* Lazy role-maps *)

\* MapDataset._lazy_data_members
LazyDataMembers ==
    {"counts", "exposure", "edisp", "psf", "mask_fit", "mask_safe", "background"}

\* the instance __dict__ of a dataset, for its lazy members: the names that
\* are keys of it (keys), their values (vals), and the value under
\* name + "_hdu" (hdus; None when there is no such key)
Instance(keys, vals, hdus) ==
    [tag |-> "MapDataset", keys |-> keys, vals |-> vals, hdus |-> hdus]

\* HDULocation(file_name=..., hdu_name=..., cache=...); file is what the file
\* holds under each HDU name (None: no such HDU)
HDULocation(hdu_name, cache, file) == [hdu_name |-> hdu_name, cache |-> cache, file |-> file]

\* HDULocation.load()
Load(hdu_loc) ==
    IF hdu_loc.file[hdu_loc.hdu_name] = None THEN Outcome("KeyError", None, None)
    ELSE Outcome("none", None, hdu_loc.file[hdu_loc.hdu_name])

\* LazyFitsData.__set__ with a value that is not an HDULocation (an
\* HDULocation goes under name + "_hdu" instead)
LazyFitsDataSet(inst, name, value) ==
    [inst EXCEPT !.keys = @ \union {name}, !.vals[name] = value]

\* LazyFitsData.__get__: the value in the instance __dict__, else the value
\* loaded from the location, memoized when the location asks for it
LazyFitsDataGet(inst, name) ==
    IF name \in inst.keys THEN Outcome("none", inst, inst.vals[name])
    ELSE IF inst.hdus[name] = None THEN Outcome("KeyError", inst, None)
    ELSE LET value == Load(inst.hdus[name])
         IN  IF value.err # "none" THEN Outcome(value.err, inst, None)
             ELSE Outcome("none",
                          IF inst.hdus[name].cache
                          THEN LazyFitsDataSet(inst, name, value.ret) ELSE inst,
                          value.ret)

\* MapDataset.reset_data_cache: self.__dict__.pop(name, False) for every lazy
\* member
ResetDataCache(inst) ==
    [inst EXCEPT !.keys = @ \ LazyDataMembers,
                 !.vals = [name \in LazyDataMembers |-> None]]

NoValues == [name \in LazyDataMembers |-> None]

\* MapDataset(counts=..., background=..., mask_safe=...): __init__ assigns
\* every role, the ones left out as None
MapDatasetInMemory(counts, background, mask_safe) ==
    Instance(LazyDataMembers,
             [NoValues EXCEPT !["counts"] = counts, !["background"] = background,
                              !["mask_safe"] = mask_safe],
             NoValues)

\* MapDataset._read_lazy(name, filename, cache): an HDULocation for every
\* lazy member, whether or not the file holds the HDU
ReadLazy(file, cache) ==
    Instance({ }, NoValues, [name \in LazyDataMembers |-> HDULocation(name, cache, file)])

\* value = dataset.<name>
CallGet(name) ==
    /\ \E out \in {LazyFitsDataGet(ds, name)} :
          /\ ds' = out.ds
          /\ last' = Call("get", ds, <<name>>, TRUE, out, FALSE)
    /\ UNCHANGED <<seen, nstack, runs, rev>>

\* dataset.<name> = value
CallSet(name, value) ==
    /\ last.op # "set"
    /\ ds' = LazyFitsDataSet(ds, name, value)
    /\ last' = Call("set", ds, <<name>>, TRUE, Outcome("none", None, None), FALSE)
    /\ UNCHANGED <<seen, nstack, runs, rev>>

\* dataset.reset_data_cache()
CallResetDataCache ==
    /\ last.op # "reset_data_cache"
    /\ ds' = ResetDataCache(ds)
    /\ last' = Call("reset_data_cache", ds, None, TRUE, Outcome("none", None, None), FALSE)
    /\ UNCHANGED <<seen, nstack, runs, rev>>

\* the files read: counts always there, background and mask_safe or not
Files ==
    { [NoValues EXCEPT !["counts"] = Ramp, !["background"] = bg, !["mask_safe"] = ms] :
        bg \in {None, Uniform(1)}, ms \in {None, AllBins} }

InitLazy ==
    /\ ds \in { MapDatasetInMemory(Ramp, bg, ms) : bg \in {None, Uniform(1)}, ms \in {None, AllBins} }
              \union { ReadLazy(file, cache) : file \in Files, cache \in BOOLEAN }
    /\ last = NoCall
    /\ seen = [prev |-> None, cur |-> None]
    /\ nstack = 0
    /\ runs = << >>
    /\ rev = NoReverse

NextLazy ==
    \/ \E name \in {"counts", "background", "mask_safe", "psf"} : CallGet(name)
    \/ CallSet("counts", Uniform(1))
    \/ CallResetDataCache

SpecLazy == InitLazy /\ [][NextLazy]_vars

-----------------------------------------------------------------------------
(* Construction *)

\* an object passed as psf or edisp: its class and its truth value bool(x)
Object(type, truthy) == [type |-> type, truthy |-> truthy]

\* bool(x): None is false
Truthy(x) == x # None /\ x.truthy

\* isinstance(x, types)
IsInstance(x, types) == x # None /\ x.type \in types

\* if psf and not isinstance(psf, (PSFMap, HDULocation))
PsfRejected(psf) == Truthy(psf) /\ ~IsInstance(psf, {"PSFMap", "HDULocation"})

\* if edisp and not isinstance(edisp, (EDispMap, EDispKernelMap, HDULocation))
EdispRejected(edisp) ==
    Truthy(edisp) /\ ~IsInstance(edisp, {"EDispMap", "EDispKernelMap", "HDULocation"})

\* the keyword arguments of a constructor call (models=None)
Kwargs(cls, counts, background, counts_off, acceptance, acceptance_off, mask_safe, mask_fit, psf, edisp) ==
    [ cls |-> cls, counts |-> counts, background |-> background,
      counts_off |-> counts_off, acceptance |-> acceptance,
      acceptance_off |-> acceptance_off, mask_safe |-> mask_safe,
      mask_fit |-> mask_fit, psf |-> psf, edisp |-> edisp ]

\* a MapDataset.__init__ that refuses arguments without a geometry
MapDatasetNew_GeomChecked(kw) ==
    IF PsfRejected(kw.psf) \/ EdispRejected(kw.edisp)
       \/ (kw.counts = None /\ kw.background = None /\ kw.mask_safe = None /\ kw.mask_fit = None)
    THEN Outcome("ValueError", None, None)
    ELSE Outcome("none",
                 WithRoles(MapDatasetInit(kw.counts, kw.background, kw.mask_safe,
                                          kw.mask_fit, None, << >>),
                           None, kw.psf, kw.edisp, None, None),
                 None)

\* MapDataset.__init__: the roles are stored as given; psf and edisp are
\* checked for their class when they are true
MapDatasetNew(kw) ==
    IF PsfRejected(kw.psf) \/ EdispRejected(kw.edisp)
    THEN Outcome("ValueError", None, None)
    ELSE Outcome("none",
                 WithRoles(MapDatasetInit(kw.counts, kw.background, kw.mask_safe,
                                          kw.mask_fit, None, << >>),
                           None, kw.psf, kw.edisp, None, None),
                 None)

\* MapDatasetOnOff.__init__: the roles are stored as given
MapDatasetOnOffNew(kw) ==
    Outcome("none",
            WithRoles(MapDatasetOnOffInit(kw.counts, kw.counts_off, kw.acceptance,
                                          kw.acceptance_off, kw.mask_safe, kw.mask_fit,
                                          << >>),
                      None, kw.psf, kw.edisp, None, None),
            None)

\* cls(**kwargs)
New(kw) == IF kw.cls = "MapDatasetOnOff" THEN MapDatasetOnOffNew(kw) ELSE MapDatasetNew(kw)

\* the roles _geom looks at, in turn
GeomRoles(d) ==
    IF IsOnOff(d) THEN <<"counts", "counts_off", "acceptance", "acceptance_off">>
    ELSE <<"counts", "background", "mask_safe", "mask_fit">>

\* MapDataset._geom, MapDatasetOnOff._geom: the geometry of the first role
\* that is not None (returned here as the name of that role)
GeomOf(d) ==
    LET present == SelectSeq(GeomRoles(d), LAMBDA r : d[r] # None)
    IN  IF present = << >> THEN Outcome("ValueError", d, None)
        ELSE Outcome("none", d, <<Head(present)>>)

\* dataset = cls(**kwargs)
CallNew(kw) ==
    /\ ds = None
    /\ last.op = "none"
    /\ \E out \in {New(kw)} :
          /\ ds' = out.ds
          /\ last' = Call("__init__", None, kw, TRUE, out, FALSE)
    /\ UNCHANGED <<seen, nstack, runs, rev>>

\* dataset._geom
CallGeom ==
    /\ ds # None
    /\ last.op = "__init__"
    /\ \E out \in {GeomOf(ds)} :
          last' = Call("_geom", ds, last.other, TRUE, out, FALSE)
    /\ UNCHANGED <<ds, seen, nstack, runs, rev>>

\* objects passed as psf: the classes accepted, and others that are true
\* (a file name) or false (an empty list of kernels)
PsfObjects ==
    { None, Object("PSFMap", TRUE), Object("HDULocation", TRUE),
      Object("str", TRUE), Object("list", FALSE) }

EdispObjects ==
    { None, Object("EDispMap", TRUE), Object("EDispKernelMap", TRUE),
      Object("HDULocation", TRUE), Object("str", TRUE), Object("list", FALSE) }

KwargsMapDataset ==
    { Kwargs("MapDataset", c, bg, None, None, None, ms, mf, psf, edisp) :
        c \in {None, Ramp}, bg \in {None, Uniform(1)},
        ms \in {None, AllBins}, mf \in {None, AllBins},
        psf \in PsfObjects, edisp \in EdispObjects }

KwargsMapDatasetOnOff ==
    { Kwargs("MapDatasetOnOff", c, None, off, acc, acc, ms, None, psf, edisp) :
        c \in {None, Ramp}, off \in {None, Unit(1)}, acc \in {None, Uniform(1)},
        ms \in {None, AllBins},
        psf \in PsfObjects, edisp \in EdispObjects }

InitNew ==
    /\ ds = None
    /\ last = NoCall
    /\ seen = [prev |-> None, cur |-> None]
    /\ nstack = 0
    /\ runs = << >>
    /\ rev = NoReverse

NextNew ==
    \/ \E kw \in KwargsMapDataset \union KwargsMapDatasetOnOff : CallNew(kw)
    \/ CallGeom

SpecNew == InitNew /\ [][NextNew]_vars

-----------------------------------------------------------------------------
(* Reduction to a region *)

\* the pixels of the sky around the footprint of the counts map (the pixels
\* 1..NBins of one energy bin): one ring of padding and one pixel beyond it
\* on each side
Sky == (-1)..(NBins + 2)

\* geom.pad(1, axis_name=None): the footprint and one pixel on each side
Padded == 0..(NBins + 1)

\* geom.region_mask(region) on the pixels given: a region is the set of the
\* pixels of the sky whose centre it contains
RegionMask(pixels, region) == [p \in pixels |-> p \in region]

\* Dataset.mask: mask_safe & mask_fit, or the one that is there
Mask(d) ==
    IF d.mask_safe # None /\ d.mask_fit # None
    THEN [b \in Bins |-> d.mask_safe[b] /\ d.mask_fit[b]]
    ELSE IF d.mask_fit # None THEN d.mask_fit
    ELSE d.mask_safe

\* not_fully_contained: a pixel on the border of the padded image is in the
\* region
NotFullyContained(region) ==
    LET region_mask == RegionMask(Padded, region)
    IN  region_mask[0] \/ region_mask[NBins + 1]

\* np.all(is_uniform): the mask is all True or all False on the pixels of
\* the region
IsUniform(mask, region) ==
    LET region_mask == RegionMask(Bins, region)
        values == {mask[b] : b \in {p \in Bins : region_mask[p]}}
    IN  (\A v \in values : v) \/ (\A v \in values : ~v)

\* Map.to_region_nd_map(region, func=np.sum, weights=weights)
RegionSum(m, weights, region) ==
    <<MapSum([b \in Bins |->
                 IF b \in region /\ (weights = None \/ weights[b]) THEN m[b] ELSE I(0)])>>

\* Map.to_region_nd_map(region, func=np.any)
RegionAny(m, region) == <<\E b \in Bins : b \in region /\ m[b]>>

\* kwargs of the reduced dataset: every role that is there, reduced
ReducedRoles(d, region) ==
    [ counts |-> RegionSum(d.counts, d.mask_safe, region),
      background |->
          IF d.stat_type = "cash" /\ d.background # None
          THEN RegionSum(NpredBackground(d).ret, d.mask_safe, region) ELSE None,
      mask_safe |-> IF d.mask_safe # None THEN RegionAny(d.mask_safe, region) ELSE None,
      mask_fit |-> IF d.mask_fit # None THEN RegionAny(d.mask_fit, region) ELSE None ]

\* MapDataset.to_region_map_dataset(region) on a dataset whose counts geometry
\* is not a region geometry
ToRegionMapDataset(d, region) ==
    IF d.counts = None THEN Outcome("AttributeError", d, None)
    ELSE IF NotFullyContained(region) THEN Outcome("Exception", d, None)
    ELSE IF Mask(d) # None /\ ~IsUniform(Mask(d), region) THEN Outcome("Exception", d, None)
    ELSE LET kw == ReducedRoles(d, region)
         IN  Outcome("none", d,
                 IF IsOnOff(d)
                 THEN MapDatasetOnOffInit(kw.counts, None, None, None,
                                          kw.mask_safe, kw.mask_fit, << >>)
                 ELSE MapDatasetInit(kw.counts, kw.background, kw.mask_safe, kw.mask_fit,
                                     None, << >>))

\* reduced = dataset.to_region_map_dataset(region)
CallToRegionMapDataset(region) ==
    /\ \E out \in {ToRegionMapDataset(ds, region)} :
          last' = Call("to_region_map_dataset", ds, [region |-> region], TRUE, out, FALSE)
    /\ UNCHANGED <<ds, seen, nstack, runs, rev>>

\* a circle or a rectangle covers a run of pixels
Regions == { a..b : a \in Sky, b \in Sky }

InitRegion ==
    /\ ds \in { MapDatasetInit(c, bg, ms, mf, None, << >>) :
                  c \in {None, Ramp}, bg \in {None, Uniform(1)},
                  ms \in {None} \union Masks, mf \in {None} \union Masks }
              \union { MapDatasetOnOffInit(Ramp, Unit(1), Uniform(1), Uniform(2), ms, None, << >>) :
                         ms \in {None} \union Masks }
    /\ last = NoCall
    /\ seen = [prev |-> None, cur |-> None]
    /\ nstack = 0
    /\ runs = << >>
    /\ rev = NoReverse

NextRegion == \E region \in Regions : CallToRegionMapDataset(region)

SpecRegion == InitRegion /\ [][NextRegion]_vars

-----------------------------------------------------------------------------
(* Structural transforms *)

\* cls(**kwargs): a dataset of the class with the roles given, no models and
\* the stat_type of the class
Build(cls, kw) ==
    WithRoles(IF cls = "MapDatasetOnOff"
              THEN MapDatasetOnOffInit(kw.counts, kw.counts_off, kw.acceptance,
                                       kw.acceptance_off, kw.mask_safe, kw.mask_fit, << >>)
              ELSE MapDatasetInit(kw.counts, kw.background, kw.mask_safe, kw.mask_fit,
                                  None, << >>),
              kw.exposure, kw.psf, kw.edisp, kw.gti, kw.meta_table)

\* the transform of a call: its name and its arguments.  The maps are cubes
\* of one pixel row: Bins index the axis the transform acts on
Transform(op, a, b) == [op |-> op, a |-> a, b |-> b]

\* Map.cutout, Map.slice_by_idx, Map.pad, Map.downsample(weights=...) and
\* Map.resample_axis(weights=...) of a map of numbers: counts are summed
\* under the weights, padding adds zeros
MapOp(t, m, weights) ==
    IF t.op = "cutout" THEN SubSeq(m, t.a, t.b)
    ELSE IF t.op = "slice_by_idx" THEN SubSeq(m, t.a + 1, t.b)
    ELSE IF t.op = "pad"
         THEN [i \in 1..(NBins + 2 * t.a) |->
                  IF i > t.a /\ i <= t.a + NBins THEN m[i - t.a] ELSE I(0)]
    ELSE <<MapSum([b \in Bins |-> IF weights = None \/ weights[b] THEN m[b] ELSE I(0)])>>

\* the same of a mask: logical or, padding adds False
MaskOp(t, m) ==
    IF t.op = "cutout" THEN SubSeq(m, t.a, t.b)
    ELSE IF t.op = "slice_by_idx" THEN SubSeq(m, t.a + 1, t.b)
    ELSE IF t.op = "pad"
         THEN [i \in 1..(NBins + 2 * t.a) |->
                  IF i > t.a /\ i <= t.a + NBins THEN m[i - t.a] ELSE FALSE]
    ELSE <<MaskAny(m)>>

\* a role that is there, transformed
IfPresent(x, transformed) == IF x = None THEN None ELSE transformed

\* the body shared by MapDataset.cutout, downsample, pad, slice_by_idx and
\* resample_energy_axis: kwargs holds every role that is not None, the
\* background only on a Cash dataset (pad: on every dataset)
MapDatasetTransform(d, t) ==
    Build(d.tag,
          [ counts |-> IfPresent(d.counts, MapOp(t, d.counts, d.mask_safe)),
            exposure |->
                IF t.op \in {"resample_energy_axis", "to_image"} THEN d.exposure
                ELSE IfPresent(d.exposure, MapOp(t, d.exposure, None)),
            background |->
                IF d.background # None /\ (d.stat_type = "cash" \/ t.op = "pad")
                THEN MapOp(t, d.background, d.mask_safe) ELSE None,
            edisp |-> d.edisp,
            psf |-> d.psf,
            mask_safe |-> IfPresent(d.mask_safe, MaskOp(t, d.mask_safe)),
            mask_fit |-> IfPresent(d.mask_fit, MaskOp(t, d.mask_fit)),
            counts_off |-> None, acceptance |-> None, acceptance_off |-> None,
            gti |-> d.gti, meta_table |-> d.meta_table ])

\* the parent method called on a dataset: on an on/off dataset the test
\* "self.background is not None" evaluates the property alpha * counts_off
Parent(d, t) ==
    IF IsOnOff(d) /\ BackgroundOnOff(d).err # "none"
    THEN Outcome(BackgroundOnOff(d).err, d, None)
    ELSE Outcome("none", d, MapDatasetTransform(d, t))

\* Map.from_geom(dataset._geom, data=value): what from_map_dataset makes of a
\* scalar acceptance
ScalarMap(dataset, value) ==
    IF GeomOf(dataset).err # "none" THEN Outcome(GeomOf(dataset).err, None, None)
    ELSE Outcome("none", None,
                 [i \in 1..Len(dataset[GeomOf(dataset).ret[1]]) |-> I(value)])

\* MapDatasetOnOff.from_map_dataset(dataset, acceptance, acceptance_off,
\* counts_off) on the dataset the parent method returned, the acceptances
\* being maps or None
FromMapDataset(dataset, acceptance, acceptance_off, counts_off) ==
    Outcome("none", None,
            [dataset EXCEPT !.counts_off = counts_off,
                            !.acceptance = acceptance,
                            !.acceptance_off = acceptance_off])

\* MapDatasetOnOff.cutout: the off roles are assigned on the parent's result
CutoutOnOff(d, t) ==
    IF Parent(d, t).err # "none" THEN Parent(d, t)
    ELSE Outcome("none", d,
        [Parent(d, t).ret EXCEPT
            !.counts_off = IfPresent(d.counts_off, MapOp(t, d.counts_off, None)),
            !.acceptance = IfPresent(d.acceptance, MapOp(t, d.acceptance, None)),
            !.acceptance_off = IfPresent(d.acceptance_off, MapOp(t, d.acceptance_off, None))])

\* MapDatasetOnOff.downsample: acceptance and acceptance_off are computed
\* only when acceptance_off is there, from self.acceptance, counts_off and
\* self.background
DownsampleOnOff(d, t) ==
    LET counts_off == IfPresent(d.counts_off, MapOp(t, d.counts_off, d.mask_safe))
    IN  IF Parent(d, t).err # "none" THEN Parent(d, t)
        ELSE IF d.acceptance_off = None
        THEN LET new == FromMapDataset(Parent(d, t).ret, None, None, counts_off)
             IN  Outcome(new.err, d, new.ret)
        ELSE IF d.acceptance = None \/ BackgroundOnOff(d).err # "none"
                \/ BackgroundOnOff(d).ret = None
        THEN Outcome("AttributeError", d, None)
        ELSE LET acceptance == MapOp(t, d.acceptance, None)
                 factor == MapOp(t, BackgroundOnOff(d).ret, d.mask_safe)
                 acceptance_off ==
                     [i \in 1..Len(acceptance) |->
                         FDiv(FMul(acceptance[i], counts_off[i]), factor[i])]
                 new == FromMapDataset(Parent(d, t).ret, acceptance,
                                       acceptance_off, counts_off)
             IN  Outcome(new.err, d, new.ret)

\* MapDatasetOnOff.slice_by_idx: from_map_dataset(dataset, **kwargs) lacks a
\* required argument when acceptance or acceptance_off is None
SliceByIdxOnOff(d, t) ==
    IF Parent(d, t).err # "none" THEN Parent(d, t)
    ELSE IF d.acceptance = None \/ d.acceptance_off = None THEN Outcome("TypeError", d, None)
    ELSE LET new == FromMapDataset(Parent(d, t).ret,
                                   MapOp(t, d.acceptance, None),
                                   MapOp(t, d.acceptance_off, None),
                                   IfPresent(d.counts_off, MapOp(t, d.counts_off, None)))
         IN  Outcome(new.err, d, new.ret)

\* MapDatasetOnOff.resample_energy_axis: acceptance defaults to the scalar 1;
\* acceptance_off is computed only when acceptance is there
ResampleEnergyAxisOnOff(d, t) ==
    LET counts_off == IfPresent(d.counts_off, MapOp(t, d.counts_off, d.mask_safe))
    IN  IF Parent(d, t).err # "none" THEN Parent(d, t)
        ELSE IF d.acceptance = None
        THEN LET acceptance == ScalarMap(Parent(d, t).ret, 1)
                 new == FromMapDataset(Parent(d, t).ret, acceptance.ret,
                                       None, counts_off)
             IN  IF acceptance.err # "none" THEN Outcome(acceptance.err, d, None)
                 ELSE Outcome(new.err, d, new.ret)
        ELSE IF BackgroundOnOff(d).err # "none" \/ BackgroundOnOff(d).ret = None
        THEN Outcome("AttributeError", d, None)
        ELSE LET acceptance == MapOp(t, d.acceptance, d.mask_safe)
                 norm_factor == MapOp(t, BackgroundOnOff(d).ret, d.mask_safe)
                 acceptance_off ==
                     [i \in 1..Len(acceptance) |->
                         FDiv(FMul(acceptance[i], counts_off[i]), norm_factor[i])]
                 new == FromMapDataset(Parent(d, t).ret, acceptance,
                                       acceptance_off, counts_off)
             IN  Outcome(new.err, d, new.ret)

\* cutout(position, width)
Cutout(d, t) == IF IsOnOff(d) THEN CutoutOnOff(d, t) ELSE Outcome("none", d, MapDatasetTransform(d, t))

\* downsample(factor)
Downsample(d, t) ==
    IF IsOnOff(d) THEN DownsampleOnOff(d, t) ELSE Outcome("none", d, MapDatasetTransform(d, t))

\* pad(pad_width): MapDatasetOnOff.pad(self) takes no pad_width and raises
\* NotImplementedError when called without
Pad(d, t) ==
    IF IsOnOff(d) THEN Outcome("TypeError", d, None)
    ELSE Outcome("none", d, MapDatasetTransform(d, t))

\* slice_by_idx({"energy": slice(a, b)})
SliceByIdx(d, t) ==
    IF IsOnOff(d) THEN SliceByIdxOnOff(d, t) ELSE Outcome("none", d, MapDatasetTransform(d, t))

\* resample_energy_axis(energy_axis)
ResampleEnergyAxis(d, t) ==
    IF IsOnOff(d) THEN ResampleEnergyAxisOnOff(d, t)
    ELSE Outcome("none", d, MapDatasetTransform(d, t))

\* to_image(): the energy axis of _geom, squashed
ToImage(d, t) ==
    IF GeomOf(d).err # "none" THEN Outcome(GeomOf(d).err, d, None)
    ELSE ResampleEnergyAxis(d, t)

\* energies are counted in half bins from the lowest edge of the axis: edge
\* k of the axis (0..NBins) is the energy 2k, the odd energies lie inside
\* the bins
MaxEnergy == 2 * NBins

\* energy_axis.bounds
AxisBounds == <<0, MaxEnergy>>

\* the edge of the axis an edge of the group falls on: an energy beyond the
\* axis is clipped, an energy inside a bin is rounded to one of the two
\* edges of the bin
GroupEdges(energy) ==
    IF energy <= 0 THEN {0}
    ELSE IF energy >= MaxEnergy THEN {NBins}
    ELSE IF energy % 2 = 0 THEN {energy \div 2}
    ELSE {(energy - 1) \div 2, (energy + 1) \div 2}

\* energy_axis.group_table(edges=[energy_min, energy_max]), the rows whose
\* bin_type is normal: one row [idx_min, idx_max] when the edges take in a
\* bin, none otherwise
GroupTable(energy_min, energy_max) ==
    { IF lo < hi THEN <<[idx_min |-> lo, idx_max |-> hi - 1]>> ELSE << >> :
        lo \in GroupEdges(energy_min), hi \in GroupEdges(energy_max) }

\* a slice that stops one bin short
EnergySlice_Short(group) == Transform("slice_by_idx", group[1].idx_min, group[1].idx_max)

\* the slice taken from the first row of the group
EnergySlice(group) == Transform("slice_by_idx", group[1].idx_min, group[1].idx_max + 1)

\* slice_by_energy(energy_min, energy_max): the outcomes group_table allows.
\* A bound is None or <<energy>>
SliceByEnergy(d, energy_min, energy_max) ==
    IF GeomOf(d).err # "none" THEN {Outcome(GeomOf(d).err, d, None)}
    ELSE LET e_min == IF energy_min = None THEN AxisBounds[1] ELSE energy_min[1]
             e_max == IF energy_max = None THEN AxisBounds[2] ELSE energy_max[1]
         IN  { IF group = << >> THEN Outcome("IndexError", d, None)
               ELSE SliceByIdx(d, EnergySlice(group)) :
               group \in GroupTable(e_min, e_max) }

\* new = dataset.<transform>(...) on a dataset as constructed, on a range of
\* bins that is not empty
CallTransform(t) ==
    /\ last.op = "none"
    /\ t.op \in {"cutout", "slice_by_idx"} => t.a <= t.b /\ (t.op = "slice_by_idx" => t.a < t.b)
    /\ \E out \in { IF t.op = "cutout" THEN Cutout(ds, t)
                    ELSE IF t.op = "downsample" THEN Downsample(ds, t)
                    ELSE IF t.op = "pad" THEN Pad(ds, t)
                    ELSE IF t.op = "slice_by_idx" THEN SliceByIdx(ds, t)
                    ELSE IF t.op = "resample_energy_axis" THEN ResampleEnergyAxis(ds, t)
                    ELSE ToImage(ds, t) } :
          /\ ds' = out.ds
          /\ last' = Call(t.op, ds, t, TRUE, out, FALSE)
    /\ UNCHANGED <<seen, nstack, runs, rev>>

\* new = dataset.slice_by_energy(energy_min, energy_max)
CallSliceByEnergy(energy_min, energy_max) ==
    /\ last.op = "none"
    /\ \E out \in SliceByEnergy(ds, energy_min, energy_max) :
          /\ ds' = out.ds
          /\ last' = Call("slice_by_energy", ds,
                          [energy_min |-> energy_min, energy_max |-> energy_max],
                          TRUE, out, FALSE)
    /\ UNCHANGED <<seen, nstack, runs, rev>>

Transforms ==
    { Transform("cutout", a, b) : a \in Bins, b \in Bins }
    \union { Transform("slice_by_idx", a - 1, b) : a \in Bins, b \in Bins }
    \union { Transform("downsample", NBins, 0), Transform("pad", 1, 0),
             Transform("resample_energy_axis", 0, 0), Transform("to_image", 0, 0) }

Energies == {None} \union { <<e>> : e \in (-1)..(MaxEnergy + 1) }

TransformedCash ==
    { WithRoles(MapDatasetInit(c, bg, ms, mf, None, << >>), e, irf, irf, t, t) :
        c \in {None, Ramp}, bg \in {None, Uniform(1)},
        ms \in {None, Only(1)}, mf \in {None, AllBins},
        e \in {None, Uniform(1)}, irf \in {None, <<"irf">>}, t \in {None, <<"table">>} }

TransformedOnOff ==
    { WithRoles(MapDatasetOnOffInit(Ramp, off, acc, acc_off, ms, None, << >>),
                None, None, None, None, None) :
        off \in {None, Unit(1)}, acc \in {None, Uniform(1)}, acc_off \in {None, Uniform(2)},
        ms \in {None, Only(1)} }

InitTransform ==
    /\ ds \in TransformedCash \union TransformedOnOff
    /\ last = NoCall
    /\ seen = [prev |-> None, cur |-> None]
    /\ nstack = 0
    /\ runs = << >>
    /\ rev = NoReverse

NextTransform ==
    \/ \E t \in Transforms : CallTransform(t)
    \/ \E energy_min \in Energies, energy_max \in Energies :
          CallSliceByEnergy(energy_min, energy_max)

SpecTransform == InitTransform /\ [][NextTransform]_vars

-----------------------------------------------------------------------------
(* PSF map: kernel radius and sampled position angle *)

Min(a, b) == IF a <= b THEN a ELSE b

\* a PSFMap: the largest centre of its rad axis, in pixels of the target
PSFMap(rad_max) == [tag |-> "PSFMap", rad_max |-> rad_max]

\* a target geometry: its width along lon and lat, in pixels
Geometry(width_lon, width_lat) == [width |-> <<width_lon, width_lat>>]

\* geom.to_odd_npix(max_radius=max_radius): the kernel geometry reaches
\* max_radius on each side of its centre pixel
ToOddNpix(max_radius) == [radius |-> max_radius, npix |-> 2 * max_radius + 1]

\* a get_psf_kernel that clamps the radius on every call
GetPsfKernel_Clamped(psf, geom, max_radius) ==
    LET limit == Min(psf.rad_max, Min(geom.width[1], geom.width[2]) \div 2)
    IN  Outcome("none", psf,
                ToOddNpix(IF max_radius = None THEN limit ELSE Min(max_radius[1], limit)))

\* PSFMap.get_psf_kernel(geom, max_radius=max_radius): max_radius is None or
\* <<radius>>; the geometry of the kernel returned
GetPsfKernel(psf, geom, max_radius) ==
    LET min_radius_geom == Min(geom.width[1], geom.width[2]) \div 2
    IN  Outcome("none", psf,
                ToOddNpix(IF max_radius = None THEN Min(psf.rad_max, min_radius_geom)
                          ELSE max_radius[1]))

\* the values random_state.random_sample() takes, as multiples of
\* 1 / AngleSteps in [0, 1)
AngleSteps == 720

\* random_state.uniform(low, high) = low + (high - low) * random_sample(),
\* in units of 1 / AngleSteps; high defaults to 1.0
UniformDraw(low, high, k) == low * AngleSteps + (high - low) * k

\* position_angle = random_state.uniform(360, size=...) * u.deg, for one
\* event
PositionAngle(k) == UniformDraw(360, 1, k)

\* kernel = psf.get_psf_kernel(geom, max_radius=max_radius)
CallGetPsfKernel(geom, max_radius) ==
    /\ last.op = "none"
    /\ \E out \in {GetPsfKernel(ds, geom, max_radius)} :
          last' = Call("get_psf_kernel", ds, [geom |-> geom, max_radius |-> max_radius],
                       TRUE, out, FALSE)
    /\ UNCHANGED <<ds, seen, nstack, runs, rev>>

\* psf.sample_coord(map_coord) of one event: the position angle drawn
CallSampleCoord(k) ==
    /\ last.op = "none"
    /\ ds.rad_max = 1
    /\ last' = Call("sample_coord", ds, <<k>>, TRUE,
                    Outcome("none", ds, <<PositionAngle(k)>>), FALSE)
    /\ UNCHANGED <<ds, seen, nstack, runs, rev>>

InitPsf ==
    /\ ds \in { PSFMap(r) : r \in 1..(MaxCount + 1) }
    /\ last = NoCall
    /\ seen = [prev |-> None, cur |-> None]
    /\ nstack = 0
    /\ runs = << >>
    /\ rev = NoReverse

NextPsf ==
    \/ \E w1, w2 \in {2 * k : k \in 1..(MaxCount + 1)},
          max_radius \in {None} \union {<<r>> : r \in 1..(MaxCount + 2)} :
          CallGetPsfKernel(Geometry(w1, w2), max_radius)
    \/ \E k \in 0..(AngleSteps - 1) : CallSampleCoord(k)

SpecPsf == InitPsf /\ [][NextPsf]_vars

-----------------------------------------------------------------------------
(* Stacking interleaved with the background model *)

\* Cash datasets holding a background map and a FoVBackgroundModel
ModelledTargets ==
    { MapDatasetInit(Uniform(1), Uniform(1), AllBins, None, p, << >>) :
        p \in {<<I(1), I(0)>>, <<I(2), I(0)>>} }

\* the datasets stacked into them
ModelledRuns ==
    { MapDatasetInit(Ramp, Uniform(1), m, None, None, << >>) : m \in {AllBins, Only(1)} }

InitCache ==
    /\ ds \in ModelledTargets
    /\ last = NoCall
    /\ seen = [prev |-> None, cur |-> None]
    /\ nstack = 0
    /\ runs = << >>
    /\ rev = NoReverse

NextCache ==
    \/ \E p \in {<<I(1), I(0)>>, <<I(2), I(0)>>} : SetParameters(p)
    \/ CallNpredBackground
    \/ \E o \in ModelledRuns : CallStack(o, TRUE)

SpecCache == InitCache /\ [][NextCache]_vars

-----------------------------------------------------------------------------
(* Stacking of exposure, IRFs and tables *)

\* exposure.meta["livetime"]: None when the key is missing, else <<seconds>>
WithLivetime(d, livetime) == d @@ [livetime |-> livetime]

\* times are whole ticks; a GTI is a sequence of intervals <<start, stop>>
MaxTime == MaxCount + 2

\* the ticks an interval list covers
Covered(gti) == { k \in 0..(MaxTime - 1) : \E i \in DOMAIN gti : gti[i][1] <= k /\ k < gti[i][2] }

\* the intervals of a set, ordered by their start
RECURSIVE SortedByStart(_)
SortedByStart(S) ==
    IF S = {} THEN << >>
    ELSE LET first == CHOOSE x \in S : \A y \in S : x[1] <= y[1]
         IN  <<first>> \o SortedByStart(S \ {first})

\* GTI.union(): overlapping and touching intervals merged, sorted by start
GtiUnion(gti) ==
    LET C == Covered(gti)
    IN  SortedByStart({ <<a, b>> \in (0..MaxTime) \X (0..MaxTime) :
                          /\ a < b
                          /\ \A k \in a..(b - 1) : k \in C
                          /\ (a - 1) \notin C
                          /\ b \notin C })

\* MapDataset.mask_safe_image: the safe mask reduced over the energy axis
\* with logical or, an image of one pixel
MaskSafeImage(d) == IF d.mask_safe = None THEN None ELSE <<MaskAny(d.mask_safe)>>

\* np.any(image): false for None
NpAny(image) == image # None /\ MaskAny(image)

\* MapDataset.stack: exposure.meta["livetime"]
StackedLivetime(d, o) ==
    IF o.livetime # None /\ NpAny(MaskSafeImage(o))
    THEN IF d.livetime # None THEN <<d.livetime[1] + o.livetime[1]>> ELSE o.livetime
    ELSE d.livetime

\* MapDataset.stack: exposure, weighted by the image of other's safe mask
StackExposure(d, o, nan_to_num) ==
    IF d.exposure # None /\ o.exposure # None
    THEN LET image == MaskSafeImage(o)
             weights == IF image = None THEN None
                        ELSE [b \in DOMAIN d.exposure |-> image[1]]
         IN  [d EXCEPT !.exposure = MapStack(d.exposure, o.exposure, weights, nan_to_num),
                       !.livetime = StackedLivetime(d, o)]
    ELSE d

\* IRFMap.stack(other, weights): other enters where the weights are true
IrfStack(irf, other, weights) ==
    IF weights = None \/ MaskAny(weights) THEN irf \o other ELSE irf

\* MapDataset.mask_safe_psf / mask_safe_edisp of other
MaskSafeIrf(o, irf) == IF o.mask_safe = None \/ irf = None THEN None ELSE MaskSafeImage(o)

\* MapDataset.stack: psf and edisp
StackIrfs(d, o) ==
    [d EXCEPT !.psf = IF d.psf # None /\ o.psf # None
                      THEN IrfStack(d.psf, o.psf, MaskSafeIrf(o, o.psf)) ELSE @,
              !.edisp = IF d.edisp # None /\ o.edisp # None
                        THEN IrfStack(d.edisp, o.edisp, MaskSafeIrf(o, o.edisp)) ELSE @]

\* GTI.stack(other): the rows of other appended to the table, in place
GtiStack(gti, other) == gti \o other

\* MapDataset.stack: gti
StackGti(d, o) ==
    IF d.gti # None /\ o.gti # None
    THEN [d EXCEPT !.gti = GtiUnion(GtiStack(d.gti, o.gti))]
    ELSE d

\* MapDataset.stack: meta_table
StackMetaTable(d, o) ==
    IF d.meta_table # None /\ o.meta_table # None
    THEN [d EXCEPT !.meta_table = d.meta_table \o o.meta_table]
    ELSE IF o.meta_table # None THEN [d EXCEPT !.meta_table = o.meta_table]
    ELSE d

\* MapDataset.stack on datasets that carry exposure, IRFs and tables
StackWithRoles(d, o, nan_to_num) ==
    CHOOSE result \in
        { IF out.err # "none" THEN out
          ELSE Outcome("none", StackMetaTable(StackGti(StackIrfs(out.ds, o), o), o), None) :
            out \in { Stack(exposed, o, nan_to_num) :
                        exposed \in { StackExposure(self, o, nan_to_num) : self \in {d} } } } :
        TRUE

\* an on/off stack that stacks the parent's roles before it checks
StackOnOffWithRoles_Unchecked(d, o, nan_to_num) ==
    IF StackOnOffError(d, o) # "none"
    THEN Outcome(StackOnOffError(d, o), StackGti(StackExposure(d, o, nan_to_num), o), None)
    ELSE StackWithRoles([d EXCEPT !.acceptance = TotalAcceptance(d, o, nan_to_num),
                                  !.acceptance_off = StackedAcceptanceOff(d, o, nan_to_num),
                                  !.counts_off = TotalOff(d, o, nan_to_num)],
                        o, nan_to_num)

\* MapDatasetOnOff.stack on datasets that carry exposure, IRFs and tables
StackOnOffWithRoles(d, o, nan_to_num) ==
    IF StackOnOffError(d, o) # "none"
    THEN Outcome(StackOnOffError(d, o), d, None)
    ELSE StackWithRoles([d EXCEPT !.acceptance = TotalAcceptance(d, o, nan_to_num),
                                  !.acceptance_off = StackedAcceptanceOff(d, o, nan_to_num),
                                  !.counts_off = TotalOff(d, o, nan_to_num)],
                        o, nan_to_num)

\* self.stack(o, nan_to_num) on such datasets
CallStackWithRoles(o, nan_to_num) ==
    /\ nstack < MaxStacks
    /\ rev = NoReverse
    /\ \E out \in { IF IsOnOff(ds) THEN StackOnOffWithRoles(ds, o, nan_to_num)
                    ELSE StackWithRoles(ds, o, nan_to_num) } :
          /\ ds' = out.ds
          /\ last' = Call("stack", ds, o, nan_to_num, out, FALSE)
    /\ nstack' = nstack + 1
    /\ UNCHANGED <<seen, runs, rev>>

\* the datasets stacked into: Cash datasets with and without exposure,
\* livetime and GTI, on/off datasets complete or not
RoleTargets ==
    { WithLivetime(WithRoles(MapDatasetInit(Ramp, Uniform(1), AllBins, None, None, << >>),
                             e, <<"irf">>, <<"irf">>, t, IF t = None THEN None ELSE <<"row">>),
                   IF e = None THEN None ELSE lt) :
        e \in {None, Uniform(1)},
        lt \in {None, <<1>>},
        t \in {None, << <<0, 1>> >>, << <<0, 1>>, <<MaxTime - 1, MaxTime>> >>} }
    \union
    { WithLivetime(WithRoles(MapDatasetOnOffInit(Ramp, off, Uniform(1), Uniform(2), m, None, << >>),
                             Uniform(1), None, None, << <<0, 1>> >>, None),
                   <<1>>) :
        off \in {None, Unit(1)}, m \in {None, AllBins, NoBins} }

\* the per-observation datasets stacked
RoleRuns ==
    { WithLivetime(WithRoles(MapDatasetInit(Ramp, Uniform(1), m, None, None, << >>),
                             Uniform(1), <<"irf">>, <<"irf">>, t, IF t = None THEN None ELSE <<"row">>),
                   lt) :
        m \in {None, AllBins, NoBins, Only(1)},
        lt \in {None, <<1>>},
        t \in {None, << <<1, 2>> >>} }
    \union
    { WithLivetime(WithRoles(MapDatasetOnOffInit(Ramp, off, Uniform(1), Uniform(2), AllBins, None, << >>),
                             Uniform(1), None, None, << <<0, 2>> >>, None),
                   <<1>>) :
        off \in {None, Unit(1)} }

InitRoles ==
    /\ ds \in RoleTargets
    /\ last = NoCall
    /\ seen = [prev |-> None, cur |-> None]
    /\ nstack = 0
    /\ runs = << >>
    /\ rev = NoReverse

NextRoles == \E o \in RoleRuns : CallStackWithRoles(o, TRUE)

SpecRoles == InitRoles /\ [][NextRoles]_vars

-----------------------------------------------------------------------------
(* Stacking into the dataset a transform returned *)

\* the dataset a transform of the dataset returns
TransformOf(d, t) ==
    IF t.op = "cutout" THEN Cutout(d, t)
    ELSE IF t.op = "downsample" THEN Downsample(d, t)
    ELSE IF t.op = "pad" THEN Pad(d, t)
    ELSE IF t.op = "slice_by_idx" THEN SliceByIdx(d, t)
    ELSE IF t.op = "resample_energy_axis" THEN ResampleEnergyAxis(d, t)
    ELSE ToImage(d, t)

\* the returned dataset with the meta of its exposure, which the Map methods
\* carry over
Returned(d, t) ==
    CHOOSE result \in
        { WithLivetime(new, IF new.exposure = None THEN None ELSE d.livetime) :
            new \in {TransformOf(d, t).ret} } :
        TRUE

\* the roles whose object the returned dataset holds by reference: kwargs
\* takes self.gti and self.meta_table in every transform, and
\* resample_energy_axis passes self.exposure, self.psf and an EDispMap on
SharedRoles(d, t) ==
    {"gti", "meta_table"}
    \union (IF t.op \in {"resample_energy_axis", "to_image"}
            THEN {"exposure", "psf"}
                 \union (IF d.edisp # None /\ d.edisp[1] = "EDispMap" THEN {"edisp"} ELSE {})
            ELSE {})

\* the source after returned.stack(o): what stack() changed in place shows
\* in every dataset that holds the object.  self.gti.stack(other.gti)
\* changes the shared table before self.gti is bound to the union;
\* meta_table is only ever bound anew
InPlace(source, returned, o, stacked, shared) ==
    [source EXCEPT
        !.exposure = IF "exposure" \in shared THEN stacked.exposure ELSE @,
        !.livetime = IF "exposure" \in shared THEN stacked.livetime ELSE @,
        !.psf = IF "psf" \in shared THEN stacked.psf ELSE @,
        !.edisp = IF "edisp" \in shared THEN stacked.edisp ELSE @,
        !.gti = IF "gti" \in shared /\ returned.gti # None /\ o.gti # None
                THEN GtiStack(returned.gti, o.gti) ELSE @]

\* returned = ds.cutout(...), ds.downsample(...), ...; both are kept
CallTransformKept(t) ==
    /\ rev = NoReverse
    /\ t.op \in {"cutout", "slice_by_idx"} => t.a <= t.b /\ (t.op = "slice_by_idx" => t.a < t.b)
    /\ \E out \in {TransformOf(ds, t)} :
          /\ out.err = "none"
          /\ rev' = [ds |-> Returned(ds, t), n |-> 0, t |-> t, shared |-> SharedRoles(ds, t)]
          /\ last' = Call(t.op, ds, t, TRUE, out, FALSE)
    /\ UNCHANGED <<ds, seen, nstack, runs>>

\* returned.stack(other), other being an observation transformed alike
CallStackReturned(observation) ==
    /\ rev.ds # None
    /\ rev.n < MaxStacks
    /\ \E o \in {Returned(observation, rev.t)} :
       \E out \in {StackWithRoles(rev.ds, o, TRUE)} :
          /\ rev' = [rev EXCEPT !.ds = out.ds, !.n = @ + 1,
                                !.shared = IF rev.ds.gti # None /\ o.gti # None
                                           THEN @ \ {"gti"} ELSE @]
          /\ ds' = InPlace(ds, rev.ds, o, out.ds, rev.shared)
          /\ last' = Call("stack", rev.ds, o, TRUE, out, FALSE)
    /\ UNCHANGED <<seen, nstack, runs>>

\* reduced Cash datasets with every role
SharedSources ==
    { WithLivetime(WithRoles(MapDatasetInit(Ramp, Uniform(1), m, None, None, << >>),
                             Uniform(1), <<"PSFMap">>, <<edisp>>, t, <<"row">>),
                   <<1>>) :
        m \in {None, AllBins},
        edisp \in {"EDispMap", "EDispKernelMap"},
        t \in {None, << <<0, 1>> >>} }

SharedRuns ==
    { WithLivetime(WithRoles(MapDatasetInit(Ramp, Uniform(1), m, None, None, << >>),
                             Uniform(1), <<"PSFMap">>, <<"EDispMap">>, << <<1, 2>> >>, <<"row">>),
                   <<1>>) :
        m \in {AllBins, NoBins} }

InitShare ==
    /\ ds \in SharedSources
    /\ last = NoCall
    /\ seen = [prev |-> None, cur |-> None]
    /\ nstack = 0
    /\ runs = << >>
    /\ rev = NoReverse

NextShare ==
    \/ \E t \in Transforms : CallTransformKept(t)
    \/ \E observation \in SharedRuns : CallStackReturned(observation)

SpecShare == InitShare /\ [][NextShare]_vars

-----------------------------------------------------------------------------
(* Background cube model: bin lookup *)

\* CubeBackgroundModel(detx_bins, dety_bins, energy_bins, background): the
\* bin edges of the three axes, increasing
CubeBackgroundModel(detx_bins, dety_bins, energy_bins) ==
    [tag |-> "CubeBackgroundModel",
     detx_bins |-> detx_bins, dety_bins |-> dety_bins, energy_bins |-> energy_bins]

\* CubeBackgroundModel.spectrum_extent: (e_lo, e_hi)
SpectrumExtent(model) == <<model.energy_bins[1], model.energy_bins[Len(model.energy_bins)]>>

\* CubeBackgroundModel.image_extent: (x_lo, x_hi, y_lo, y_hi)
ImageExtent(model) ==
    <<model.detx_bins[1], model.detx_bins[Len(model.detx_bins)],
      model.dety_bins[1], model.dety_bins[Len(model.dety_bins)]>>

\* bins[:-1] and bins[1:]
EdgesLow(bins) == SubSeq(bins, 1, Len(bins) - 1)
EdgesHigh(bins) == SubSeq(bins, 2, Len(bins))

\* np.searchsorted(a, v), side='left': the number of elements below v
SearchSorted(a, v) == Cardinality({i \in DOMAIN a : a[i] < v})

\* CubeBackgroundModel.find_energy_bin(energy), energy holding one value.
\* The test reads (not (e_lo <= energy)) and (energy < e_hi)
FindEnergyBin(model, energy) ==
    LET energy_extent == SpectrumExtent(model)
        energy_edges_low == EdgesLow(model.energy_bins)
        energy_edges_high == EdgesHigh(model.energy_bins)
        bin_pos == SearchSorted(energy_edges_high, energy)
    IN  IF ~(energy_extent[1] <= energy) /\ (energy < energy_extent[2])
        THEN Outcome("ValueError", model, None)
        ELSE IF bin_pos >= Len(energy_edges_high)
        THEN Outcome("IndexError", model, None)
        ELSE Outcome("none", model,
                     [bin_pos |-> <<bin_pos>>,
                      bin_edges |-> <<energy_edges_low[bin_pos + 1],
                                      energy_edges_high[bin_pos + 1]>>])

\* CubeBackgroundModel.find_det_bin(det), det = (X, Y)
FindDetBin(model, det) ==
    LET det_extent == ImageExtent(model)
        detx_edges_low == EdgesLow(model.detx_bins)
        detx_edges_high == EdgesHigh(model.detx_bins)
        dety_edges_low == EdgesLow(model.dety_bins)
        dety_edges_high == EdgesHigh(model.dety_bins)
        bin_pos_x == SearchSorted(detx_edges_high, det[1])
        bin_pos_y == SearchSorted(dety_edges_high, det[2])
    IN  IF ~((det_extent[1] <= det[1]) /\ (det[1] < det_extent[2]))
           \/ ~((det_extent[3] <= det[2]) /\ (det[2] < det_extent[4]))
        THEN Outcome("ValueError", model, None)
        ELSE Outcome("none", model,
                     [bin_pos |-> <<bin_pos_x, bin_pos_y>>,
                      bin_edges |-> <<detx_edges_low[bin_pos_x + 1],
                                      detx_edges_high[bin_pos_x + 1],
                                      dety_edges_low[bin_pos_y + 1],
                                      dety_edges_high[bin_pos_y + 1]>>])

\* bin_pos, bin_edges = model.find_energy_bin(energy)
CallFindEnergyBin(energy) ==
    /\ last.op = "none"
    /\ \E out \in {FindEnergyBin(ds, energy)} :
          last' = Call("find_energy_bin", ds, <<energy>>, TRUE, out, FALSE)
    /\ UNCHANGED <<ds, seen, nstack, runs, rev>>

\* bin_pos, bin_edges = model.find_det_bin(det)
CallFindDetBin(det) ==
    /\ last.op = "none"
    /\ \E out \in {FindDetBin(ds, det)} :
          last' = Call("find_det_bin", ds, det, TRUE, out, FALSE)
    /\ UNCHANGED <<ds, seen, nstack, runs, rev>>

\* NBins bins of the given width from the given lowest edge
BinEdges(lowest, width) == [k \in 1..(NBins + 1) |-> lowest + width * (k - 1)]

\* the values looked up: from below the lowest edge to above the highest
Lookups == (-1)..(MaxEnergy + 2)

InitBins ==
    /\ ds \in { CubeBackgroundModel(BinEdges(0, 2), BinEdges(lowest, width), BinEdges(lowest, width)) :
                  lowest \in {0, 1}, width \in {1, 2} }
    /\ last = NoCall
    /\ seen = [prev |-> None, cur |-> None]
    /\ nstack = 0
    /\ runs = << >>
    /\ rev = NoReverse

NextBins ==
    \/ \E energy \in Lookups : CallFindEnergyBin(energy)
    \/ \E x \in Lookups, y \in Lookups : CallFindDetBin(<<x, y>>)

SpecBins == InitBins /\ [][NextBins]_vars

-----------------------------------------------------------------------------
(* Claims on the predicted counts *)

\* max(0, x) as numpy computes it: NaN stays NaN
Max0(x) == IF x.d # 0 /\ x.n < 0 THEN I(0) ELSE x

\* the background term of npred() for the dataset as it is now
BackgroundTerm(d) == IF Background(d).ret = None THEN MapFromGeom ELSE NpredBackground(d).ret

\* C1: npred() is, bin by bin, max(0, npred_signal() + npred_background());
\* without a background map the background term is left out and the result
\* is max(0, npred_signal()).
C1_NpredIsClippedSum ==
    (last.op = "npred" /\ last.err = "none") =>
        \A b \in Bins :
            last.ret[b] = Max0(FAdd(NpredSignal(ds)[b], BackgroundTerm(ds)[b]))

\* C1 witness: npred() of a Cash dataset with a background map and a model
\* component, one bin clipped at 0 and one bin positive.
C1_Witness ==
    /\ last.op = "npred"
    /\ ~IsOnOff(ds)
    /\ ds.background # None
    /\ \E b \in Bins : FNeg(FAdd(NpredSignal(ds)[b], BackgroundTerm(ds)[b]))
                       /\ last.ret[b] = I(0)
    /\ \E b \in Bins : last.ret[b].n > 0 /\ ds.background[b].n > 0

\* elementwise comparison of two parameter vectors with the IEEE rule that a
\* NaN differs from every value
ValuesDiffer(p, q) == \E i \in 1..Len(q) : IsNaN(p[i]) \/ IsNaN(q[i]) \/ p[i] # q[i]

\* C10: with a FoVBackgroundModel attached, npred_background() returns the
\* background map times the model at the current parameter values, and the
\* model is evaluated only when the values differ from those of the previous
\* call (or there was none); without a model it returns the background map.
C10_BackgroundFollowsParameters ==
    (last.op = "npred_background" /\ ~IsOnOff(ds)) =>
        /\ ComparesParameters(ds) =>
              last.ret = MapMul(ds.background, EvaluateGeom(ds.bkg_pars))
        /\ ~ComparesParameters(ds) => (last.ret = ds.background /\ ~last.evaluated)
        /\ last.evaluated => (seen.prev = None \/ ValuesDiffer(seen.prev, seen.cur))

\* C10 witness: a second npred_background() after the norm was changed
\* evaluates the model again and returns the rescaled map.
C10_Witness ==
    /\ last.op = "npred_background"
    /\ last.evaluated
    /\ seen.prev # None
    /\ seen.prev[1] = I(1)
    /\ seen.cur[1] = I(2)
    /\ \E b \in Bins : ds.background[b] = I(1) /\ last.ret[b] = I(2)

\* C10 witness of the cached path: a call with unchanged values returns the
\* scaled map without evaluating the model.
C10_WitnessCached ==
    /\ last.op = "npred_background"
    /\ ~last.evaluated
    /\ ComparesParameters(ds)
    /\ seen.prev = seen.cur
    /\ seen.cur[1] = I(2)
    /\ \E b \in Bins : ds.background[b] = I(1) /\ last.ret[b] = I(2)

-----------------------------------------------------------------------------
(* Claims on stacking *)

Stacked == last.op = "stack" /\ last.err = "none"

\* what a bin of other contributes to a stacked map: the value, zeroed when
\* it is not finite and nan_to_num is set, times the safe mask as 1 or 0
Contribution(x, w, b, nan_to_num) ==
    LET v == IF nan_to_num /\ x.d = 0 THEN I(0) ELSE x
    IN  IF w = None \/ w[b] THEN FMul(v, I(1)) ELSE FMul(v, I(0))

\* a bin of other's map where its safe mask is true, 0 where it is false
Masked(x, w, b) == IF w = None \/ w[b] THEN x ELSE I(0)

CountsStacked ==
    (Stacked /\ last.pre.counts # None /\ last.other.counts # None) =>
        \A b \in Bins :
            ds.counts[b] = FAdd(last.pre.counts[b],
                                Masked(last.other.counts[b], last.other.mask_safe, b))

BackgroundsStacked ==
    Stacked /\ ~IsOnOff(last.pre) /\ ~IsOnOff(last.other)
    /\ last.pre.background # None /\ last.other.background # None

\* C2 as stated: stack() adds other's counts and, for Cash datasets, other's
\* background in the bins of other's safe mask, and keeps the values self held.
C2_StoredValuesKept ==
    /\ CountsStacked
    /\ BackgroundsStacked =>
          \A b \in Bins :
              ds.background[b] =
                  FAdd(last.pre.background[b],
                       Masked(last.other.background[b], last.other.mask_safe, b))

\* the map npred_background() of a Cash dataset returns: the stored map
\* without a background model, else the map scaled at the last evaluation
\* when the parameter values are those of that evaluation, else the stored
\* map times the model
PredictedBackground(d) ==
    IF d.bkg_pars = None THEN d.background
    ELSE IF d.bkg_pars_cached # None /\ ~ValuesDiffer(d.bkg_pars_cached, d.bkg_pars)
         THEN d.bkg_cached
         ELSE [b \in Bins |-> FMul(d.background[b], EvaluateGeom(d.bkg_pars)[b])]

\* C2 amended: stack() adds other's counts in the bins of other's safe mask and
\* keeps the counts self held; for Cash datasets it replaces self.background
\* by self.npred_background() plus other.npred_background() weighted by
\* other's safe mask, non-finite values of other counting as 0 under nan_to_num.
C2_PredictedBackgroundStacked ==
    /\ CountsStacked
    /\ BackgroundsStacked =>
          \A b \in Bins :
              ds.background[b] =
                  FAdd(PredictedBackground(last.pre)[b],
                       Contribution(PredictedBackground(last.other)[b],
                                    last.other.mask_safe, b, last.nan_to_num))

\* C2 witness: a Cash dataset with a background model of norm 2 received a
\* dataset whose safe mask drops a bin; the stored background was rescaled.
C2_Witness ==
    /\ BackgroundsStacked
    /\ last.pre.bkg_pars = <<I(2), I(0)>>
    /\ last.evaluated
    /\ last.other.mask_safe # None
    /\ \E b \in Bins : ~last.other.mask_safe[b] /\ ds.counts[b] = last.pre.counts[b]
                       /\ ds.background[b] = FMul(I(2), last.pre.background[b])
    /\ \E b \in Bins : last.other.mask_safe[b] /\ ds.counts[b] # last.pre.counts[b]

Mismatched == last.op = "stack" /\ IsOnOff(last.pre) # IsOnOff(last.other)

\* C7 as stated: stacking datasets of mismatched variants raises an error in
\* both directions.
C7_MismatchRaises == Mismatched => last.err # "none"

Complete(d) == ~MissingRole(d, {"counts", "counts_off", "acceptance", "acceptance_off"})

\* C7 amended: MapDatasetOnOff.stack(other) with other a plain MapDataset
\* raises TypeError and leaves self as it was; MapDataset.stack(other) with
\* other a MapDatasetOnOff raises no TypeError, and with every role of other
\* present it returns and has stacked other's counts.
C7_OnlyOnOffRejects ==
    Mismatched =>
        IF IsOnOff(last.pre)
        THEN last.err = "TypeError" /\ ds = last.pre
        ELSE /\ last.err # "TypeError"
             /\ Complete(last.other) => (last.err = "none" /\ CountsStacked)

\* C7 witness: both directions happened, here an on/off dataset with every
\* role stacked into a Cash dataset, its counts added.
C7_Witness ==
    /\ Mismatched
    /\ ~IsOnOff(last.pre)
    /\ Complete(last.other)
    /\ last.err = "none"
    /\ \E b \in Bins : ds.counts[b] # last.pre.counts[b]

\* C7 witness of the rejecting direction
C7_WitnessRejected == Mismatched /\ IsOnOff(last.pre) /\ last.err = "TypeError"

\* C8: MapDataset.stack(other) with other a MapDatasetOnOff adds
\* other.alpha * other.counts_off to self.background in the bins of other's
\* safe mask and 0 elsewhere.
C8_OnOffBackgroundIsAlphaOff ==
    (Stacked /\ ~IsOnOff(last.pre) /\ IsOnOff(last.other) /\ Complete(last.other)
     /\ last.pre.background # None) =>
        \A b \in Bins :
            ds.background[b] =
                FAdd(PredictedBackground(last.pre)[b],
                     Masked(FMul(Alpha(last.other)[b], last.other.counts_off[b]),
                            last.other.mask_safe, b))

OnOffStacked == Stacked /\ IsOnOff(last.pre) /\ Complete(last.pre) /\ Complete(last.other)

\* the totals of an on/off stack as the sums of self's values and other's
\* values in the bins of other's safe mask
SumOff(b) ==
    FAdd(last.pre.counts_off[b],
         Masked(last.other.counts_off[b], last.other.mask_safe, b))

SumAlphaWeighted(b) ==
    FAdd(FMul(Alpha(last.pre)[b], last.pre.counts_off[b]),
         Masked(FMul(Alpha(last.other)[b], last.other.counts_off[b]),
                last.other.mask_safe, b))

SumAcceptance(b) ==
    FAdd(last.pre.acceptance[b],
         Masked(last.other.acceptance[b], last.other.mask_safe, b))

RECURSIVE SumOver(_, _)
SumOver(F(_), k) == IF k = 0 THEN I(0) ELSE FAdd(SumOver(F, k - 1), F(k))

AverageAlpha == FDiv(SumOver(SumAlphaWeighted, NBins), SumOver(SumOff, NBins))

\* C5: after MapDatasetOnOff.stack(other), where total_off is non-zero
\* acceptance_off is total_acceptance * total_off / total_alpha_weighted and
\* alpha * counts_off is total_alpha_weighted; where total_off is zero
\* acceptance_off is total_acceptance / average_alpha.
C5_AcceptanceOffPreservesAlpha ==
    OnOffStacked =>
        \A b \in Bins :
            IF SumOff(b) # I(0)
            THEN /\ ds.acceptance_off[b] =
                        FDiv(FMul(SumAcceptance(b), SumOff(b)), SumAlphaWeighted(b))
                 /\ FMul(Alpha(ds)[b], ds.counts_off[b]) = SumAlphaWeighted(b)
            ELSE ds.acceptance_off[b] = FDiv(SumAcceptance(b), AverageAlpha)

Unmasked(d) == d.mask_safe # None /\ \E b \in Bins : d.mask_safe[b]

Incomplete(d) == d.acceptance = None \/ d.acceptance_off = None \/ d.counts_off = None

\* C6: MapDatasetOnOff.stack(other) raises the stacking error exactly when
\* self or other lacks acceptance, acceptance_off or counts_off and has a true
\* bin in its safe mask; in every other case the stack returns without error.
C6_ErrorIffIncompleteUnmasked ==
    (last.op = "stack" /\ IsOnOff(last.pre) /\ IsOnOff(last.other)) =>
        IF \E d \in {last.pre, last.other} : Incomplete(d) /\ Unmasked(d)
        THEN last.err = "ValueError"
        ELSE last.err = "none"

\* C9: alpha is acceptance / acceptance_off where acceptance_off is not 0 and
\* is 0 where acceptance_off is 0, whatever the acceptance there.
C9_AlphaZeroWithoutAcceptanceOff ==
    (IsOnOff(ds) /\ ds.acceptance # None /\ ds.acceptance_off # None) =>
        \A b \in Bins :
            IF ds.acceptance_off[b] = I(0)
            THEN Alpha(ds)[b] = I(0)
            ELSE IsNaN(ds.acceptance_off[b])
                 \/ Alpha(ds)[b] = FDiv(ds.acceptance[b], ds.acceptance_off[b])

\* bin-wise OR of two masks
Union(m, o) == [b \in Bins |-> m[b] \/ o[b]]

\* C4: after MapDataset.stack(other), mask_safe is the bin-wise OR of the two
\* safe masks; mask_fit is the bin-wise OR of the two fit masks when both
\* datasets have one and a copy of other's when only other has one.
C4_MasksAreUnion ==
    Stacked =>
        /\ (last.pre.mask_safe # None /\ last.other.mask_safe # None) =>
              ds.mask_safe = Union(last.pre.mask_safe, last.other.mask_safe)
        /\ (last.pre.mask_fit # None /\ last.other.mask_fit # None) =>
              ds.mask_fit = Union(last.pre.mask_fit, last.other.mask_fit)
        /\ (last.pre.mask_fit = None /\ last.other.mask_fit # None) =>
              ds.mask_fit = last.other.mask_fit

\* C4 witness: both datasets had a safe mask and a fit mask, each mask true
\* in a bin where the other is false, and the result is true in both bins.
C4_Witness ==
    /\ Stacked
    /\ last.pre.mask_safe # None /\ last.other.mask_safe # None
    /\ last.pre.mask_fit # None /\ last.other.mask_fit # None
    /\ \E b, c \in Bins :
          /\ last.pre.mask_fit[b] /\ ~last.other.mask_fit[b]
          /\ last.other.mask_fit[c] /\ ~last.pre.mask_fit[c]
          /\ ds.mask_fit[b] /\ ds.mask_fit[c]
          /\ last.pre.mask_safe[b] /\ ~last.other.mask_safe[b]
          /\ ds.mask_safe[b] /\ ds.mask_safe[c]

\* C4 witness of the adopted fit mask: only other had one.
C4_WitnessAdopted ==
    /\ Stacked
    /\ last.pre.mask_fit = None
    /\ last.other.mask_fit = Only(NBins)
    /\ ds.mask_fit = Only(NBins)

OrdersDone == nstack = 3 /\ rev.n = 3

\* C3: stacking A then B then C into an empty dataset of from_geoms gives the
\* same counts in every bin, hence the same total counts, as stacking C then B
\* then A, whatever the safe masks of A, B and C.
C3_CountsOrderIndependent ==
    OrdersDone =>
        /\ \A b \in Bins : ds.counts[b] = rev.ds.counts[b]
        /\ MapSum(ds.counts) = MapSum(rev.ds.counts)

\* C3 witness: both orders are done, A, B and C have different safe masks, one
\* of them drops a bin with counts, and the stacked counts are not zero.
C3_Witness ==
    /\ OrdersDone
    /\ runs[1].mask_safe = Only(1)
    /\ runs[2].mask_safe = None
    /\ runs[3].mask_safe = NoBins
    /\ runs[1].counts # runs[2].counts
    /\ \E b \in Bins : ~runs[1].mask_safe[b] /\ runs[1].counts[b] # I(0)
    /\ ds.counts[1] = FAdd(runs[1].counts[1], runs[2].counts[1])

-----------------------------------------------------------------------------
(* Claims on the models *)

\* the positions of the non-background models selected for this dataset
Wanted(models) == {i \in 1..Len(models) : Selected(models[i]) /\ ~models[i].fov}

\* C11: after an assignment to models the evaluators are exactly one per
\* non-background model selected for this dataset, keyed by the model's name;
\* no evaluator of a model assigned before remains.
C11_OneEvaluatorPerModel ==
    last.op = "models" =>
        LET models == last.other
            evs == ds.evaluators
        IN  /\ Len(evs) = Cardinality(Wanted(models))
            /\ \A i \in Wanted(models) :
                  \E j \in 1..Len(evs) :
                      evs[j] = Evaluator(models[i].name, models[i].contributes,
                                         models[i].npred)
            /\ \A j, k \in 1..Len(evs) : evs[j].name = evs[k].name => j = k

\* C11 witness: a dataset holding the evaluator of "src" was assigned a list
\* in which "src" is for another dataset and "diffuse" for this one; only the
\* evaluator of "diffuse" is left.
C11_Witness ==
    /\ last.op = "models"
    /\ \E j \in 1..Len(last.pre.evaluators) : last.pre.evaluators[j].name = "src"
    /\ Len(last.other) = 2
    /\ ~Selected(last.other[1])
    /\ Len(ds.evaluators) = 1
    /\ ds.evaluators[1].name = "diffuse"

\* the names of the evaluators that contribute, in their order
Contributing(evs) == SelectSeq(evs, LAMBDA e : e.contributes)
ContributingNames(evs) == [i \in 1..Len(Contributing(evs)) |-> Contributing(evs)[i].name]

\* the sum of the slices of a map over its "models" axis
RECURSIVE SumOverAxis(_, _)
SumOverAxis(slices, k) ==
    IF k = 0 THEN MapFromGeom ELSE MapAdd(SumOverAxis(slices, k - 1), slices[k])

\* C12: npred_signal(stack=False) returns a map with a "models" axis labelled
\* by the names of the contributing models in evaluator order, one slice per
\* contributing model, whose sum over the axis is npred_signal(stack=True),
\* also when no model is attached or none contributes.
C12_ModelsAxisAlways ==
    (last.op = "npred_signal" /\ ~last.other.stack) =>
        /\ last.ret.axes = <<"models">>
        /\ last.ret.labels = ContributingNames(ds.evaluators)
        /\ Len(last.ret.data) = Len(last.ret.labels)
        /\ SumOverAxis(last.ret.data, Len(last.ret.data)) = NpredSignal(ds)

-----------------------------------------------------------------------------
(* Claims on writing and reading *)

\* the roles of a dataset of each class
RoleNames(d) ==
    {"counts", "exposure", "edisp", "psf", "mask_safe", "mask_fit", "gti", "meta_table"}
    \union (IF IsOnOff(d) THEN {"counts_off", "acceptance", "acceptance_off"}
            ELSE {"background"})

Populated(d) == {r \in RoleNames(d) : d[r] # None}

Written == last.op = "to_hdulist"
ReadBack == last.op = "from_hdulist"

\* C13: every dataset can be written and read back, and the dataset read has
\* exactly the roles populated that the original had, and its stat_type.
C13_RoundTripKeepsRolesAndStatType ==
    /\ Written => last.err = "none"
    /\ ReadBack => /\ Populated(ds) = Populated(last.pre)
                   /\ ds.stat_type = last.pre.stat_type

\* a mask that is present holds boolean data
BooleanMasks(d) ==
    /\ d.mask_safe # None => d.mask_safe_dtype = "bool"
    /\ d.mask_fit # None => d.mask_fit_dtype = "bool"

\* C14: after a dataset is read back, mask_safe and mask_fit hold boolean
\* data, for MapDataset.from_hdulist and MapDatasetOnOff.from_hdulist alike.
C14_MasksBooleanAfterRead == ReadBack => BooleanMasks(ds)

-----------------------------------------------------------------------------
(* Claims on lazy role-maps *)

\* what reading a role gives: the exception raised and the value returned
Read(d, name) == [err |-> LazyFitsDataGet(d, name).err, ret |-> LazyFitsDataGet(d, name).ret]

\* a role-map that can be read
Accessible(d, name) == Read(d, name).err = "none" /\ Read(d, name).ret # None

\* C15: neither an access nor reset_data_cache() changes what reading a
\* role-map returns: every role-map that was accessible before the call is
\* accessible with the same value after it.
C15_ReadsSurviveReset ==
    last.op \in {"get", "reset_data_cache"} =>
        \A name \in LazyDataMembers :
            Accessible(last.pre, name) => Read(ds, name) = Read(last.pre, name)

-----------------------------------------------------------------------------
(* Claims on construction *)

Constructed == last.op = "__init__"

\* no role-map at all is passed to the constructor
NoRoleMap(kw) ==
    /\ kw.counts = None /\ kw.background = None /\ kw.mask_safe = None /\ kw.mask_fit = None
    /\ kw.counts_off = None /\ kw.acceptance = None /\ kw.acceptance_off = None

\* C16 as stated: constructing a dataset with no geometry-determining
\* role-map fails at construction.
C16_FailsAtConstruction == (Constructed /\ NoRoleMap(last.other)) => last.err # "none"

\* none of the roles that _geom of the class looks at is there
NoGeometry(d) == \A i \in 1..Len(GeomRoles(d)) : d[GeomRoles(d)[i]] = None

\* C16: the constructor does not fail for want of a geometry: it fails only
\* on a psf or edisp it rejects; the ValueError comes at the first use of
\* the geometry, exactly when the roles _geom looks at are all absent.
C16_FailsAtFirstUseOfGeometry ==
    /\ Constructed =>
          (last.err = "none" <=>
              (last.other.cls = "MapDatasetOnOff"
               \/ ~(PsfRejected(last.other.psf) \/ EdispRejected(last.other.edisp))))
    /\ (Constructed /\ last.err = "none") => ds # None
    /\ last.op = "_geom" =>
          /\ last.err = (IF NoGeometry(ds) THEN "ValueError" ELSE "none")
          /\ last.err = "none" => ds[last.ret[1]] # None

C16_Witness ==
    /\ last.op = "_geom"
    /\ last.err = "ValueError"
    /\ NoRoleMap(last.other)
    /\ ds.tag = "MapDataset"

C16_WitnessOnOff ==
    /\ last.op = "_geom"
    /\ last.err = "ValueError"
    /\ ds.tag = "MapDatasetOnOff"
    /\ ds.mask_safe # None

\* an object of a class the psf role does not take
WrongPsf(x) == x # None /\ ~IsInstance(x, {"PSFMap", "HDULocation"})
WrongEdisp(x) == x # None /\ ~IsInstance(x, {"EDispMap", "EDispKernelMap", "HDULocation"})

\* C17: constructing a dataset of either class with a psf or an edisp of a
\* class the role does not take raises at construction.
C17_WrongIrfTypeRaises ==
    (Constructed /\ (WrongPsf(last.other.psf) \/ WrongEdisp(last.other.edisp)))
        => last.err = "ValueError"

-----------------------------------------------------------------------------
(* Claims on the reduction to a region *)

\* the region lies inside the footprint of the counts map
Enclosed(region) == region \subseteq Bins

\* the mask is there and takes both values on pixels of the region
TakesBothValues(mask, region) ==
    mask # None /\ \E b, c \in region \intersect Bins : mask[b] /\ ~mask[c]

\* C18: to_region_map_dataset(region) raises when the region is not enclosed
\* by the footprint of the counts map and when the fit mask or the safe mask
\* takes both values inside the region; in every other case it returns the
\* reduced dataset.
C18_RaisesIffNotEnclosedOrNotUniform ==
    last.op = "to_region_map_dataset" =>
        LET region == last.other.region
            refused == \/ ~Enclosed(region)
                       \/ TakesBothValues(last.pre.mask_fit, region)
                       \/ TakesBothValues(last.pre.mask_safe, region)
        IN  IF refused THEN last.err # "none"
            ELSE last.err = "none" /\ last.ret # None

-----------------------------------------------------------------------------
(* Claims on the structural transforms *)

SlicedByEnergy == last.op = "slice_by_energy"

\* the bounds of the call, None replaced by the bound of the axis
EnergyMin == IF last.other.energy_min = None THEN AxisBounds[1] ELSE last.other.energy_min[1]
EnergyMax == IF last.other.energy_max = None THEN AxisBounds[2] ELSE last.other.energy_max[1]

\* the bins whose edges lie inside the bounds: bin k has the edges 2(k-1), 2k
BinsInside == {k \in Bins : 2 * (k - 1) >= EnergyMin /\ 2 * k <= EnergyMax}

First(S) == CHOOSE k \in S : \A j \in S : k <= j

\* slice_by_idx on the bins inside the bounds
SliceOfBinsInside ==
    SliceByIdx(last.pre, Transform("slice_by_idx", First(BinsInside) - 1,
                                   First(BinsInside) - 1 + Cardinality(BinsInside)))

OnEdge(energy) == energy = None \/ energy[1] % 2 = 0 \/ energy[1] < 0 \/ energy[1] > MaxEnergy

TransformNames ==
    {"cutout", "downsample", "pad", "slice_by_idx", "slice_by_energy",
     "resample_energy_axis", "to_image"}

\* C20: every transform returns a new dataset in which every role that is
\* populated in the source is populated, and leaves the source as it was.
C20_TransformsKeepRoles ==
    last.op \in TransformNames =>
        /\ last.err = "none"
        /\ Populated(last.pre) \subseteq Populated(last.ret)
        /\ ds = last.pre

-----------------------------------------------------------------------------
(* Claims on the PSF map *)

KernelBuilt == last.op = "get_psf_kernel"

\* min(largest tabulated rad, half the smallest width of the geometry)
RadiusLimit ==
    Min(last.pre.rad_max, Min(last.other.geom.width[1], last.other.geom.width[2]) \div 2)

\* C21 as stated: the radius of the kernel is no larger than the limit on
\* every call, also when the caller passes max_radius.
C21_RadiusAlwaysClamped == KernelBuilt => last.ret.radius <= RadiusLimit

\* C21: without max_radius the kernel reaches exactly the limit; a
\* max_radius the caller passes is used as it is, above the limit too.
C21_RadiusClampedByDefaultOnly ==
    KernelBuilt =>
        /\ last.other.max_radius = None => last.ret.radius = RadiusLimit
        /\ last.other.max_radius # None => last.ret.radius = last.other.max_radius[1]
        /\ last.ret.npix = 2 * last.ret.radius + 1

C21_Witness ==
    /\ KernelBuilt
    /\ last.other.max_radius # None
    /\ last.ret.radius > last.pre.rad_max
    /\ last.ret.radius > last.other.geom.width[1] \div 2

C21_WitnessDefault ==
    /\ KernelBuilt
    /\ last.other.max_radius = None
    /\ last.ret.radius = last.pre.rad_max
    /\ last.ret.radius < last.other.geom.width[2] \div 2

\* the angles one call can draw, in units of 1 / AngleSteps degrees
PositionAngles == { PositionAngle(k) : k \in 0..(AngleSteps - 1) }

\* C22: the position angle drawn lies in [0, 360) degrees, and every degree
\* of that interval, the first included, holds an angle that can be drawn.
C22_PositionAngleCoversCircle ==
    last.op = "sample_coord" =>
        /\ last.ret[1] >= 0
        /\ last.ret[1] < 360 * AngleSteps
        /\ \A d \in 0..359 :
              \E a \in PositionAngles : d * AngleSteps <= a /\ a < (d + 1) * AngleSteps

-----------------------------------------------------------------------------
(* Claims on stacking interleaved with the background model *)

\* C23: on a Cash dataset with a background model, in any interleaving of
\* stack(), parameter changes and npred_background(), a call of
\* npred_background() leaves the stored background map as it was and returns
\* the stored map times the model values at the current parameters.
C23_StoredBackgroundKept ==
    [][(last'.op = "npred_background" /\ ComparesParameters(ds)) =>
          /\ ds'.background = ds.background
          /\ last'.ret = MapMul(ds.background, EvaluateGeom(ds.bkg_pars))]_vars

-----------------------------------------------------------------------------
(* Claims on the stacking of exposure, livetime and tables *)

StackedRoles == last.op = "stack" /\ last.err = "none"

\* other's exposure enters: both datasets hold one, and other's safe mask is
\* missing or true somewhere
ExposureAdded ==
    /\ last.pre.exposure # None
    /\ last.other.exposure # None
    /\ (last.other.mask_safe = None \/ MaskAny(last.other.mask_safe))

\* C25: when other's exposure carries a livetime, stack(other) adds it to
\* self's (adopts it when self has none) exactly when other's exposure is
\* added, and leaves self's livetime alone otherwise.
C25_LivetimeFollowsExposure ==
    (StackedRoles /\ last.pre.exposure # None /\ last.other.exposure # None
        /\ last.other.livetime # None) =>
        ds.livetime = IF ExposureAdded
                      THEN IF last.pre.livetime = None THEN last.other.livetime
                           ELSE <<last.pre.livetime[1] + last.other.livetime[1]>>
                      ELSE last.pre.livetime

IsSortedDisjoint(gti) == \A i \in 1..(Len(gti) - 1) : gti[i][2] < gti[i + 1][1]

\* C27: after stack(other) the GTI of the dataset covers what its GTI and
\* other's GTI covered, sorted and without overlap, also when the dataset
\* held no GTI before.
C27_GtiIsUnion ==
    (StackedRoles /\ last.other.gti # None) =>
        /\ ds.gti # None
        /\ Covered(ds.gti) = Covered(last.pre.gti) \union Covered(last.other.gti)
        /\ IsSortedDisjoint(ds.gti)

StackRaised == last.op = "stack" /\ last.err # "none" /\ IsOnOff(last.pre)

\* C28: when MapDatasetOnOff.stack(other) raises, self is as it was before
\* the call.
C28_RaisingStackKeepsSelf == StackRaised => ds = last.pre

C28_Witness ==
    /\ StackRaised
    /\ last.err = "ValueError"
    /\ ExposureAdded
    /\ last.pre.gti # None /\ last.other.gti # None /\ last.pre.gti # last.other.gti
    /\ ds.exposure = last.pre.exposure
    /\ ds.gti = last.pre.gti

C28_WitnessTypeError ==
    /\ StackRaised
    /\ last.err = "TypeError"
    /\ ExposureAdded
    /\ ds.counts = last.pre.counts

-----------------------------------------------------------------------------
(* Claims on the dataset a transform returned *)

SourceRoles == {"exposure", "livetime", "psf", "edisp", "gti", "meta_table"}

\* C24: stacking a dataset into the dataset a structural transform returned
\* leaves exposure (with its livetime), psf, edisp, GTI and meta_table of the
\* source as they were.
C24_SourceRolesKept ==
    [][(rev.ds # None /\ last'.op = "stack") => \A r \in SourceRoles : ds'[r] = ds[r]]_vars

-----------------------------------------------------------------------------
(* Claims on the bin lookup of the background cube model *)

EnergyLooked == last.op = "find_energy_bin"

\* the bin of an axis that contains the value under half-open bins, as
\* <<index>> counted from 0; None outside the axis
Containing(bins, v) ==
    IF \E i \in 1..(Len(bins) - 1) : bins[i] <= v /\ v < bins[i + 1]
    THEN <<(CHOOSE i \in 1..(Len(bins) - 1) : bins[i] <= v /\ v < bins[i + 1]) - 1>>
    ELSE None

\* C29: find_energy_bin raises ValueError for every energy below the lowest
\* edge and for every energy at or above the highest edge.
C29_OutsideRaisesValueError ==
    (EnergyLooked /\ Containing(last.pre.energy_bins, last.other[1]) = None) =>
        last.err = "ValueError"

\* C30: for an energy inside the range find_energy_bin returns the index
\* and the edges of the half-open bin that contains it, an energy on an edge
\* included; find_det_bin does so on each detector axis.
C30_ReturnsContainingBin ==
    /\ (EnergyLooked /\ Containing(last.pre.energy_bins, last.other[1]) # None) =>
          /\ last.err = "none"
          /\ last.ret.bin_pos = Containing(last.pre.energy_bins, last.other[1])
          /\ last.ret.bin_edges[1] <= last.other[1]
          /\ last.other[1] < last.ret.bin_edges[2]
    /\ (last.op = "find_det_bin"
          /\ Containing(last.pre.detx_bins, last.other[1]) # None
          /\ Containing(last.pre.dety_bins, last.other[2]) # None) =>
          /\ last.err = "none"
          /\ last.ret.bin_pos = Containing(last.pre.detx_bins, last.other[1])
                                   \o Containing(last.pre.dety_bins, last.other[2])
          /\ last.ret.bin_edges[1] <= last.other[1] /\ last.other[1] < last.ret.bin_edges[2]
          /\ last.ret.bin_edges[3] <= last.other[2] /\ last.other[2] < last.ret.bin_edges[4]

-----------------------------------------------------------------------------
(* Claims on background parameters that are NaN *)

\* C26: when a background parameter is NaN and the values are those of the
\* previous npred_background() call, the call does not evaluate the
\* background model again.
C26_NaNCountsAsUnchanged ==
    (last.op = "npred_background"
        /\ ComparesParameters(ds)
        /\ seen.prev # None
        /\ seen.prev = seen.cur
        /\ \E i \in 1..Len(seen.cur) : IsNaN(seen.cur[i])) =>
        ~last.evaluated

=============================================================================
